---------------------------- MODULE Spec2Model ----------------------------
(***************************************************************************)
(* Topological distance-bounds builder of RDKit                            *)
(* (Code/GraphMol/DistGeomHelpers/BoundsMatrixBuilder.cpp).                *)
(*                                                                         *)
(* Units.  Distances are fixed-point integers in 1/1000 Angstrom, angles   *)
(* are integers in 1/10 degree, cosines and sines are scaled by CosScale.  *)
(* Atom and bond indices are 0-based as in the C++ code.                   *)
(***************************************************************************)
EXTENDS Integers, Sequences, FiniteSets, TLC

VARIABLES
  molId,      \* the molecule handed to setTopolBounds (index into the zoo)
  opts,       \* set15bounds, scaleVDW, useMacrocycle14config, forceTransAmides
              \* and which overload is called
  pc,         \* position inside setTopolBounds
  mmat,       \* the bounds matrix
  accumData,  \* the ComputedData of the running invocation
  bonds,      \* output vectors of the second overload
  angles,
  err,        \* exception that ended the invocation, "none" otherwise
  hist,       \* passes of this invocation that have run, in order
  ncalls,     \* completed invocations on this matrix
  entryMat,   \* the matrix as it was when the invocation was entered
  preVdw,     \* the matrix as it was when setLowerBoundVDW was entered
  call,       \* arguments and outcome of the last direct _checkAndSetBounds
  calls14,    \* the dispatch routines set14Bounds has called, in order, with
              \* what each call did
  calls13,    \* the angles set13Bounds has assigned, in order, with the
              \* counters of the central atom as they were before
  calls15,    \* the candidate 1-5 pairs set15Bounds has looked at, in order,
              \* with what the preflight saw and what was done
  writers     \* (pass, routine): the routines each pass of this invocation
              \* has called to write matrix entries

vars == <<molId, opts, pc, mmat, accumData, bonds, angles, err, hist, ncalls,
          entryMat, preVdw, call, calls13, calls14, calls15,
                 writers>>

---------------------------------------------------------------------------
(* Program constants (lines 27-36 of BoundsMatrixBuilder.cpp), in 1/1000 A *)

DIST12_DELTA == 10
DIST13_TOL == 40
GEN_DIST_TOL == 60
DIST15_TOL == 80
MAX_UPPER == 1000000
minMacrocycleRingSize == 9

\* VDW_SCALE_15 = 0.7, applied to a fixed-point distance
VDW_SCALE_15(v) == (7 * v) \div 10

\* (VDW_SCALE_15 + 0.5 * (1.0 - VDW_SCALE_15)) = 0.85
VDW_SCALE_16(v) == (85 * v) \div 100

---------------------------------------------------------------------------
(* Fixed-point arithmetic standing for <cmath>                             *)

CosScale == 100000

\* cos of 0.0, 0.1, ..., 90.0 degrees, times CosScale
CosTable ==
  <<
     100000, 100000, 99999, 99999, 99998, 99996, 99995, 99993, 99990, 99988, 99985, 99982,
     99978, 99974, 99970, 99966, 99961, 99956, 99951, 99945, 99939, 99933, 99926, 99919,
     99912, 99905, 99897, 99889, 99881, 99872, 99863, 99854, 99844, 99834, 99824, 99813,
     99803, 99792, 99780, 99768, 99756, 99744, 99731, 99719, 99705, 99692, 99678, 99664,
     99649, 99635, 99619, 99604, 99588, 99572, 99556, 99540, 99523, 99506, 99488, 99470,
     99452, 99434, 99415, 99396, 99377, 99357, 99337, 99317, 99297, 99276, 99255, 99233,
     99211, 99189, 99167, 99144, 99122, 99098, 99075, 99051, 99027, 99002, 98978, 98953,
     98927, 98902, 98876, 98849, 98823, 98796, 98769, 98741, 98714, 98686, 98657, 98629,
     98600, 98570, 98541, 98511, 98481, 98450, 98420, 98389, 98357, 98325, 98294, 98261,
     98229, 98196, 98163, 98129, 98096, 98061, 98027, 97992, 97958, 97922, 97887, 97851,
     97815, 97778, 97742, 97705, 97667, 97630, 97592, 97553, 97515, 97476, 97437, 97398,
     97358, 97318, 97278, 97237, 97196, 97155, 97113, 97072, 97030, 96987, 96945, 96902,
     96858, 96815, 96771, 96727, 96682, 96638, 96593, 96547, 96502, 96456, 96410, 96363,
     96316, 96269, 96222, 96174, 96126, 96078, 96029, 95981, 95931, 95882, 95832, 95782,
     95732, 95681, 95630, 95579, 95528, 95476, 95424, 95372, 95319, 95266, 95213, 95159,
     95106, 95052, 94997, 94943, 94888, 94832, 94777, 94721, 94665, 94609, 94552, 94495,
     94438, 94380, 94322, 94264, 94206, 94147, 94088, 94029, 93969, 93909, 93849, 93789,
     93728, 93667, 93606, 93544, 93483, 93420, 93358, 93295, 93232, 93169, 93106, 93042,
     92978, 92913, 92849, 92784, 92718, 92653, 92587, 92521, 92455, 92388, 92321, 92254,
     92186, 92119, 92050, 91982, 91914, 91845, 91775, 91706, 91636, 91566, 91496, 91425,
     91355, 91283, 91212, 91140, 91068, 90996, 90924, 90851, 90778, 90704, 90631, 90557,
     90483, 90408, 90334, 90259, 90183, 90108, 90032, 89956, 89879, 89803, 89726, 89649,
     89571, 89493, 89415, 89337, 89259, 89180, 89101, 89021, 88942, 88862, 88782, 88701,
     88620, 88539, 88458, 88377, 88295, 88213, 88130, 88048, 87965, 87882, 87798, 87715,
     87631, 87546, 87462, 87377, 87292, 87207, 87121, 87036, 86949, 86863, 86777, 86690,
     86603, 86515, 86427, 86340, 86251, 86163, 86074, 85985, 85896, 85806, 85717, 85627,
     85536, 85446, 85355, 85264, 85173, 85081, 84989, 84897, 84805, 84712, 84619, 84526,
     84433, 84339, 84245, 84151, 84057, 83962, 83867, 83772, 83676, 83581, 83485, 83389,
     83292, 83195, 83098, 83001, 82904, 82806, 82708, 82610, 82511, 82413, 82314, 82214,
     82115, 82015, 81915, 81815, 81714, 81614, 81513, 81412, 81310, 81208, 81106, 81004,
     80902, 80799, 80696, 80593, 80489, 80386, 80282, 80178, 80073, 79968, 79864, 79758,
     79653, 79547, 79441, 79335, 79229, 79122, 79016, 78908, 78801, 78694, 78586, 78478,
     78369, 78261, 78152, 78043, 77934, 77824, 77715, 77605, 77494, 77384, 77273, 77162,
     77051, 76940, 76828, 76717, 76604, 76492, 76380, 76267, 76154, 76041, 75927, 75813,
     75700, 75585, 75471, 75356, 75241, 75126, 75011, 74896, 74780, 74664, 74548, 74431,
     74314, 74198, 74080, 73963, 73846, 73728, 73610, 73491, 73373, 73254, 73135, 73016,
     72897, 72777, 72657, 72537, 72417, 72297, 72176, 72055, 71934, 71813, 71691, 71569,
     71447, 71325, 71203, 71080, 70957, 70834, 70711, 70587, 70463, 70339, 70215, 70091,
     69966, 69842, 69717, 69591, 69466, 69340, 69214, 69088, 68962, 68835, 68709, 68582,
     68455, 68327, 68200, 68072, 67944, 67816, 67688, 67559, 67430, 67301, 67172, 67043,
     66913, 66783, 66653, 66523, 66393, 66262, 66131, 66000, 65869, 65738, 65606, 65474,
     65342, 65210, 65077, 64945, 64812, 64679, 64546, 64412, 64279, 64145, 64011, 63877,
     63742, 63608, 63473, 63338, 63203, 63068, 62932, 62796, 62660, 62524, 62388, 62251,
     62115, 61978, 61841, 61704, 61566, 61429, 61291, 61153, 61015, 60876, 60738, 60599,
     60460, 60321, 60182, 60042, 59902, 59763, 59622, 59482, 59342, 59201, 59061, 58920,
     58779, 58637, 58496, 58354, 58212, 58070, 57928, 57786, 57643, 57501, 57358, 57215,
     57071, 56928, 56784, 56641, 56497, 56353, 56208, 56064, 55919, 55775, 55630, 55484,
     55339, 55194, 55048, 54902, 54756, 54610, 54464, 54317, 54171, 54024, 53877, 53730,
     53583, 53435, 53288, 53140, 52992, 52844, 52696, 52547, 52399, 52250, 52101, 51952,
     51803, 51653, 51504, 51354, 51204, 51054, 50904, 50754, 50603, 50453, 50302, 50151,
     50000, 49849, 49697, 49546, 49394, 49242, 49090, 48938, 48786, 48634, 48481, 48328,
     48175, 48022, 47869, 47716, 47562, 47409, 47255, 47101, 46947, 46793, 46639, 46484,
     46330, 46175, 46020, 45865, 45710, 45554, 45399, 45243, 45088, 44932, 44776, 44620,
     44464, 44307, 44151, 43994, 43837, 43680, 43523, 43366, 43209, 43051, 42894, 42736,
     42578, 42420, 42262, 42104, 41945, 41787, 41628, 41469, 41310, 41151, 40992, 40833,
     40674, 40514, 40355, 40195, 40035, 39875, 39715, 39555, 39394, 39234, 39073, 38912,
     38752, 38591, 38430, 38268, 38107, 37946, 37784, 37622, 37461, 37299, 37137, 36975,
     36812, 36650, 36488, 36325, 36162, 36000, 35837, 35674, 35511, 35347, 35184, 35021,
     34857, 34694, 34530, 34366, 34202, 34038, 33874, 33710, 33545, 33381, 33216, 33051,
     32887, 32722, 32557, 32392, 32227, 32061, 31896, 31730, 31565, 31399, 31233, 31068,
     30902, 30736, 30570, 30403, 30237, 30071, 29904, 29737, 29571, 29404, 29237, 29070,
     28903, 28736, 28569, 28402, 28234, 28067, 27899, 27731, 27564, 27396, 27228, 27060,
     26892, 26724, 26556, 26387, 26219, 26050, 25882, 25713, 25545, 25376, 25207, 25038,
     24869, 24700, 24531, 24362, 24192, 24023, 23853, 23684, 23514, 23345, 23175, 23005,
     22835, 22665, 22495, 22325, 22155, 21985, 21814, 21644, 21474, 21303, 21132, 20962,
     20791, 20620, 20450, 20279, 20108, 19937, 19766, 19595, 19423, 19252, 19081, 18910,
     18738, 18567, 18395, 18224, 18052, 17880, 17708, 17537, 17365, 17193, 17021, 16849,
     16677, 16505, 16333, 16160, 15988, 15816, 15643, 15471, 15299, 15126, 14954, 14781,
     14608, 14436, 14263, 14090, 13917, 13744, 13572, 13399, 13226, 13053, 12880, 12706,
     12533, 12360, 12187, 12014, 11840, 11667, 11494, 11320, 11147, 10973, 10800, 10626,
     10453, 10279, 10106, 9932, 9758, 9585, 9411, 9237, 9063, 8889, 8716, 8542,
     8368, 8194, 8020, 7846, 7672, 7498, 7324, 7150, 6976, 6802, 6627, 6453,
     6279, 6105, 5931, 5756, 5582, 5408, 5234, 5059, 4885, 4711, 4536, 4362,
     4188, 4013, 3839, 3664, 3490, 3316, 3141, 2967, 2792, 2618, 2443, 2269,
     2094, 1920, 1745, 1571, 1396, 1222, 1047, 873, 698, 524, 349, 175,
     0
  >>

Abs(x) == IF x < 0 THEN -x ELSE x

\* the angle in 0..1800 that has the cosine of a
RECURSIVE CosFold(_)
CosFold(a) ==
  IF a < 0 THEN CosFold(-a)
  ELSE IF a > 3600 THEN CosFold(a - 3600)
  ELSE IF a > 1800 THEN 3600 - a
  ELSE a

\* cos of an angle of 0..1800: cos(180 - x) = -cos(x)
CosFolded(r) ==
  (IF r > 900 THEN -1 ELSE 1) * CosTable[(IF r > 900 THEN 1800 - r ELSE r) + 1]

CosQ(a) == CosFolded(CosFold(a))

SinQ(a) == CosQ(a - 900)

\* x * c / CosScale, rounded toward zero
MulQ(x, c) == IF x * c >= 0 THEN (x * c) \div CosScale
              ELSE -((-(x * c)) \div CosScale)

RECURSIVE SqrtIter(_, _)
SqrtIter(n, x) ==
  LET y == (x + n \div x) \div 2
  IN IF y >= x THEN x ELSE SqrtIter(n, y)

\* floor of the square root
Sqrt(n) == IF n <= 0 THEN 0 ELSE SqrtIter(n, n)

Max(a, b) == IF a > b THEN a ELSE b
Min(a, b) == IF a < b THEN a ELSE b

---------------------------------------------------------------------------
(* DistGeom::BoundsMatrix: one lower and one upper bound per unordered     *)
(* pair of points.                                                         *)

Pair(i, j) == IF i > j THEN <<i, j>> ELSE <<j, i>>

Pairs(npt) == {<<i, j>> : i \in 1..(npt - 1), j \in 0..(npt - 2)} \cap
              {p \in (0..(npt - 1)) \X (0..(npt - 1)) : p[2] < p[1]}

getLowerBound(m, i, j) == m.lb[Pair(i, j)]
getUpperBound(m, i, j) == m.ub[Pair(i, j)]
setLowerBound(m, i, j, v) == [m EXCEPT !.lb[Pair(i, j)] = v]
setUpperBound(m, i, j, v) == [m EXCEPT !.ub[Pair(i, j)] = v]

initBoundsMat(npt, defaultMin, defaultMax) ==
  [lb |-> [p \in Pairs(npt) |-> defaultMin],
   ub |-> [p \in Pairs(npt) |-> defaultMax]]

---------------------------------------------------------------------------
(* _checkAndSetBounds: the two CHECK_INVARIANTs, then the two halves.      *)
(* The result is the matrix after the call and whether it returned.        *)

\* variant: a set lower bound is raised, never lowered
checkAndSetLowerTightening(i, j, lb, m) ==
  LET clb == getLowerBound(m, i, j)
  IN IF clb <= DIST12_DELTA THEN setLowerBound(m, i, j, lb)
     ELSE IF lb > clb THEN setLowerBound(m, i, j, lb)
     ELSE m

checkAndSetLower(i, j, lb, m) ==
  LET clb == getLowerBound(m, i, j)
  IN IF clb <= DIST12_DELTA THEN setLowerBound(m, i, j, lb)
     ELSE IF (lb < clb) /\ (lb > DIST12_DELTA) THEN setLowerBound(m, i, j, lb)
     ELSE m

\* variant: the sentinel is recognised with > instead of >=
checkAndSetUpperStrict(i, j, ub, m) ==
  LET cub == getUpperBound(m, i, j)
  IN IF cub > MAX_UPPER THEN setUpperBound(m, i, j, ub)
     ELSE IF (ub > cub) /\ (ub < MAX_UPPER) THEN setUpperBound(m, i, j, ub)
     ELSE m

checkAndSetUpper(i, j, ub, m) ==
  LET cub == getUpperBound(m, i, j)
  IN IF cub >= MAX_UPPER THEN setUpperBound(m, i, j, ub)
     ELSE IF (ub > cub) /\ (ub < MAX_UPPER) THEN setUpperBound(m, i, j, ub)
     ELSE m

\* variant: the second CHECK_INVARIANT is missing
checkAndSetInvariantsFirstOnly(i, j, lb, ub, m) == ub > lb

checkAndSetInvariants(i, j, lb, ub, m) ==
  /\ ub > lb
  /\ (lb > DIST12_DELTA \/ getLowerBound(m, i, j) > DIST12_DELTA)

_checkAndSetBounds(i, j, lb, ub, m) ==
  IF ~checkAndSetInvariants(i, j, lb, ub, m)
  THEN [ok |-> FALSE, m |-> m]
  ELSE [ok |-> TRUE,
        m |-> checkAndSetUpper(i, j, ub, checkAndSetLower(i, j, lb, m))]

---------------------------------------------------------------------------
(* The molecule view (ROMol, RingInfo, PeriodicTable, UFF parameters):     *)
(* read-only inputs of the builder.                                        *)

Z0(seq) == [i \in 0..(Len(seq) - 1) |-> seq[i + 1]]

Atom(z, hyb, nH) ==
  [Z |-> z, hyb |-> hyb, nH |-> nH, prm |-> TRUE, nts |-> FALSE,
   perm |-> FALSE, ideal |-> 900]

\* bl is UFF's calcBondRestLength for the bond, order its getBondTypeAsDouble
Bond(b, e, t, bl) ==
  [beg |-> b, end |-> e, type |-> t, conj |-> FALSE, stereo |-> "NONE",
   stereoAtoms |-> <<>>, bl |-> bl]

Conj(bnd) == [bnd EXCEPT !.conj = TRUE]
Stereo(bnd, s, a, b) == [bnd EXCEPT !.stereo = s, !.stereoAtoms = <<a, b>>]
NoParams(atm) == [atm EXCEPT !.prm = FALSE]

CSP3 == Atom(6, "SP3", 2)
CSP2 == Atom(6, "SP2", 1)

\* n-alkane with n carbons, hydrogens implicit; Chain(0) has no atoms
Chain(n) ==
  [atoms |-> [i \in 0..(n - 1) |-> CSP3],
   bonds |-> [b \in 0..(n - 2) |-> Bond(b, b + 1, "SINGLE", 1514)],
   atomRings |-> <<>>, bondRings |-> <<>>]

\* c1ccccc1
Benzene ==
  [atoms |-> [i \in 0..5 |-> CSP2],
   bonds |-> [b \in 0..5 |-> Conj(Bond(b, (b + 1) % 6, "AROMATIC", 1379))],
   atomRings |-> << <<0, 5, 4, 3, 2, 1>> >>,
   bondRings |-> << <<5, 4, 3, 2, 1, 0>> >>]

\* C1CCCCCCCC1
Cyclononane ==
  [atoms |-> [i \in 0..8 |-> CSP3],
   bonds |-> [b \in 0..8 |-> Bond(b, (b + 1) % 9, "SINGLE", 1514)],
   atomRings |-> << <<0, 8, 7, 6, 5, 4, 3, 2, 1>> >>,
   bondRings |-> << <<8, 7, 6, 5, 4, 3, 2, 1, 0>> >>]

\* O=C(N)C with the two amide hydrogens present: O0 C1 N2 C3 H4 H5
Acetamide ==
  [atoms |-> Z0(<<Atom(8, "SP2", 0), Atom(6, "SP2", 0), Atom(7, "SP2", 2),
                 Atom(6, "SP3", 3), Atom(1, "S", 0), Atom(1, "S", 0)>>),
   bonds |-> Z0(<<Conj(Bond(0, 1, "DOUBLE", 1220)),
                 Conj(Bond(1, 2, "SINGLE", 1357)),
                 Bond(1, 3, "SINGLE", 1486),
                 Bond(2, 4, "SINGLE", 1044),
                 Bond(2, 5, "SINGLE", 1044)>>),
   atomRings |-> <<>>, bondRings |-> <<>>]

\* CC(=O)NC with the amide hydrogen present: C0 C1 O2 N3 C4 H5
NMethylAcetamide ==
  [atoms |-> Z0(<<Atom(6, "SP3", 3), Atom(6, "SP2", 0), Atom(8, "SP2", 0),
                 Atom(7, "SP2", 1), Atom(6, "SP3", 3), Atom(1, "S", 0)>>),
   bonds |-> Z0(<<Bond(0, 1, "SINGLE", 1486),
                 Conj(Bond(1, 2, "DOUBLE", 1220)),
                 Conj(Bond(1, 3, "SINGLE", 1357)),
                 Bond(3, 4, "SINGLE", 1449),
                 Bond(3, 5, "SINGLE", 1044)>>),
   atomRings |-> <<>>, bondRings |-> <<>>]

\* CSSC
Disulfide ==
  [atoms |-> Z0(<<Atom(6, "SP3", 3), Atom(16, "SP3", 0), Atom(16, "SP3", 0),
                 Atom(6, "SP3", 3)>>),
   bonds |-> Z0(<<Bond(0, 1, "SINGLE", 1821), Bond(1, 2, "SINGLE", 2067),
                 Bond(2, 3, "SINGLE", 1821)>>),
   atomRings |-> <<>>, bondRings |-> <<>>]

\* C/C=C\C=C : Z double bond followed by a conjugated unmarked one
ZDiene ==
  [atoms |-> Z0(<<Atom(6, "SP3", 3), CSP2, CSP2, CSP2, Atom(6, "SP2", 2)>>),
   bonds |-> Z0(<<Bond(0, 1, "SINGLE", 1486),
                 Conj(Stereo(Bond(1, 2, "DOUBLE", 1329), "STEREOZ", 0, 3)),
                 Conj(Bond(2, 3, "SINGLE", 1457)),
                 Conj(Bond(3, 4, "DOUBLE", 1329))>>),
   atomRings |-> <<>>, bondRings |-> <<>>]

\* C/C=C/C with the stereo atoms stored in the order (3, 0)
EButene ==
  [atoms |-> Z0(<<Atom(6, "SP3", 3), CSP2, CSP2, Atom(6, "SP3", 3)>>),
   bonds |-> Z0(<<Bond(0, 1, "SINGLE", 1486),
                 Stereo(Bond(1, 2, "DOUBLE", 1329), "STEREOE", 3, 0),
                 Bond(2, 3, "SINGLE", 1486)>>),
   atomRings |-> <<>>, bondRings |-> <<>>]

\* c1ccsc1 : S0 C1 C2 C3 C4, conjugated 5-ring with a heavy heteroatom
Thiophene ==
  [atoms |-> Z0(<<Atom(16, "SP2", 0), CSP2, CSP2, CSP2, CSP2>>),
   bonds |-> Z0(<<Conj(Bond(0, 1, "AROMATIC", 1713)),
                 Conj(Bond(1, 2, "AROMATIC", 1379)),
                 Conj(Bond(2, 3, "AROMATIC", 1379)),
                 Conj(Bond(3, 4, "AROMATIC", 1379)),
                 Conj(Bond(4, 0, "AROMATIC", 1713))>>),
   atomRings |-> << <<0, 4, 3, 2, 1>> >>,
   bondRings |-> << <<4, 3, 2, 1, 0>> >>]

\* CC1CCC1 : methyl on a 4-ring, C0 is the methyl
MethylCyclobutane ==
  [atoms |-> Z0(<<Atom(6, "SP3", 3), Atom(6, "SP3", 1), CSP3, CSP3, CSP3>>),
   bonds |-> Z0(<<Bond(0, 1, "SINGLE", 1514), Bond(1, 2, "SINGLE", 1514),
                 Bond(2, 3, "SINGLE", 1514), Bond(3, 4, "SINGLE", 1514),
                 Bond(4, 1, "SINGLE", 1514)>>),
   atomRings |-> << <<1, 4, 3, 2>> >>,
   bondRings |-> << <<4, 3, 2, 1>> >>]

\* C1CC1CCC : propyl on a 3-ring
PropylCyclopropane ==
  [atoms |-> Z0(<<CSP3, CSP3, Atom(6, "SP3", 1), CSP3, CSP3, Atom(6, "SP3", 3)>>),
   bonds |-> Z0(<<Bond(0, 1, "SINGLE", 1514), Bond(1, 2, "SINGLE", 1514),
                 Bond(2, 0, "SINGLE", 1514), Bond(2, 3, "SINGLE", 1514),
                 Bond(3, 4, "SINGLE", 1514), Bond(4, 5, "SINGLE", 1514)>>),
   atomRings |-> << <<0, 2, 1>> >>,
   bondRings |-> << <<2, 1, 0>> >>]

\* C=C=CC#N : cumulated double bonds and a triple bond
Cumulene ==
  [atoms |-> Z0(<<Atom(6, "SP2", 2), Atom(6, "SP", 0), CSP2,
                 Atom(6, "SP", 0), Atom(7, "SP", 0)>>),
   bonds |-> Z0(<<Bond(0, 1, "DOUBLE", 1304), Bond(1, 2, "DOUBLE", 1304),
                 Conj(Bond(2, 3, "SINGLE", 1430)),
                 Conj(Bond(3, 4, "TRIPLE", 1157))>>),
   atomRings |-> <<>>, bondRings |-> <<>>]

\* [Na]CC.C : an atom without UFF parameters and a second fragment
SodiumEthyl ==
  [atoms |-> Z0(<<NoParams(Atom(11, "S", 0)), CSP3, Atom(6, "SP3", 3),
                 Atom(6, "SP3", 4)>>),
   bonds |-> Z0(<<Bond(0, 1, "SINGLE", 2300), Bond(1, 2, "SINGLE", 1514)>>),
   atomRings |-> <<>>, bondRings |-> <<>>]

\* C1=CC=CCCCC1 : an 8-ring, half of it conjugated
Cyclooctadiene ==
  [atoms |-> Z0(<<CSP2, CSP2, CSP2, CSP2, CSP3, CSP3, CSP3, CSP3>>),
   bonds |-> Z0(<<Conj(Bond(0, 1, "DOUBLE", 1329)),
                 Conj(Bond(1, 2, "SINGLE", 1457)),
                 Conj(Bond(2, 3, "DOUBLE", 1329)),
                 Bond(3, 4, "SINGLE", 1486), Bond(4, 5, "SINGLE", 1514),
                 Bond(5, 6, "SINGLE", 1514), Bond(6, 7, "SINGLE", 1514),
                 Bond(7, 0, "SINGLE", 1486)>>),
   atomRings |-> << <<0, 7, 6, 5, 4, 3, 2, 1>> >>,
   bondRings |-> << <<7, 6, 5, 4, 3, 2, 1, 0>> >>]

\* CS(=O)(=O)C : two double bonds on an atom of degree 4
DimethylSulfone ==
  [atoms |-> Z0(<<Atom(6, "SP3", 3), Atom(16, "SP3", 0), Atom(8, "SP2", 0),
                 Atom(8, "SP2", 0), Atom(6, "SP3", 3)>>),
   bonds |-> Z0(<<Bond(0, 1, "SINGLE", 1800), Bond(1, 2, "DOUBLE", 1450),
                 Bond(1, 3, "DOUBLE", 1450), Bond(1, 4, "SINGLE", 1800)>>),
   atomRings |-> <<>>, bondRings |-> <<>>]

\* CC1CCCCCCCC1 : a substituent on a 9-ring, C0 is the methyl
MethylCyclononane ==
  [atoms |-> [i \in 0..9 |-> IF i = 0 THEN Atom(6, "SP3", 3)
                             ELSE IF i = 1 THEN Atom(6, "SP3", 1) ELSE CSP3],
   bonds |-> [b \in 0..9 |-> IF b = 9 THEN Bond(9, 1, "SINGLE", 1514)
                             ELSE Bond(b, b + 1, "SINGLE", 1514)],
   atomRings |-> << <<1, 9, 8, 7, 6, 5, 4, 3, 2>> >>,
   bondRings |-> << <<9, 8, 7, 6, 5, 4, 3, 2, 1>> >>]

\* C1=CC2CC1C2 : bicyclo[2.1.1]hex-2-ene; the path C4-C0=C1-C2 lies in both
\* 5-rings
Bicyclohexene ==
  [atoms |-> Z0(<<CSP2, CSP2, Atom(6, "SP3", 1), CSP3, Atom(6, "SP3", 1),
                 CSP3>>),
   bonds |-> Z0(<<Bond(0, 1, "DOUBLE", 1329), Bond(1, 2, "SINGLE", 1486),
                 Bond(2, 3, "SINGLE", 1514), Bond(3, 4, "SINGLE", 1514),
                 Bond(4, 0, "SINGLE", 1486), Bond(4, 5, "SINGLE", 1514),
                 Bond(5, 2, "SINGLE", 1514)>>),
   atomRings |-> << <<0, 4, 3, 2, 1>>, <<2, 5, 4, 3>>, <<0, 4, 5, 2, 1>> >>,
   bondRings |-> << <<4, 3, 2, 1, 0>>, <<6, 5, 3, 2>>, <<4, 5, 6, 1, 0>> >>]

\* C12CC1CCCCCC2 : bicyclo[6.1.0]nonane with ring info that is not a
\* smallest set of rings, as a depth-first ring search from C0 leaves it: the
\* 3-ring and the 9-ring around the whole skeleton
Bicyclononane ==
  [atoms |-> [i \in 0..8 |-> IF i = 0 \/ i = 2 THEN Atom(6, "SP3", 1)
                             ELSE CSP3],
   bonds |-> [b \in 0..9 |-> IF b < 2 THEN Bond(b, b + 1, "SINGLE", 1514)
                             ELSE IF b = 2 THEN Bond(2, 0, "SINGLE", 1514)
                             ELSE IF b = 9 THEN Bond(8, 0, "SINGLE", 1514)
                             ELSE Bond(b - 1, b, "SINGLE", 1514)],
   atomRings |-> << <<0, 1, 2>>, <<0, 1, 2, 3, 4, 5, 6, 7, 8>> >>,
   bondRings |-> << <<0, 1, 2>>, <<0, 1, 3, 4, 5, 6, 7, 8, 9>> >> ]

\* Cc1ccccc1C : o-xylene; C0 and C7 are the methyls on C1 and C6
OXylene ==
  [atoms |-> [i \in 0..7 |-> IF i = 0 \/ i = 7 THEN Atom(6, "SP3", 3)
                             ELSE IF i = 1 \/ i = 6 THEN Atom(6, "SP2", 0)
                             ELSE CSP2],
   bonds |-> [b \in 0..7 |->
                IF b = 0 THEN Bond(0, 1, "SINGLE", 1486)
                ELSE IF b = 6 THEN Conj(Bond(6, 1, "AROMATIC", 1379))
                ELSE IF b = 7 THEN Bond(6, 7, "SINGLE", 1486)
                ELSE Conj(Bond(b, b + 1, "AROMATIC", 1379))],
   atomRings |-> << <<1, 6, 5, 4, 3, 2>> >>,
   bondRings |-> << <<6, 5, 4, 3, 2, 1>> >>]

\* C/C=C/CC : (E)-pent-2-ene, C0 C1=C2 C3 C4
EPentene ==
  [atoms |-> Z0(<<Atom(6, "SP3", 3), CSP2, CSP2, Atom(6, "SP3", 2),
                 Atom(6, "SP3", 3)>>),
   bonds |-> Z0(<<Bond(0, 1, "SINGLE", 1486),
                 Stereo(Bond(1, 2, "DOUBLE", 1329), "STEREOE", 0, 3),
                 Bond(2, 3, "SINGLE", 1486),
                 Bond(3, 4, "SINGLE", 1514)>>),
   atomRings |-> <<>>, bondRings |-> <<>>]

\* CCCCCC.C : hexane and a methane, C6 has no bond
HexaneMethane ==
  [atoms |-> [i \in 0..6 |-> IF i = 6 THEN Atom(6, "SP3", 4)
                             ELSE IF i = 0 \/ i = 5 THEN Atom(6, "SP3", 3)
                             ELSE CSP3],
   bonds |-> [b \in 0..4 |-> Bond(b, b + 1, "SINGLE", 1514)],
   atomRings |-> <<>>, bondRings |-> <<>>]

NamedMols ==
  <<Benzene, Cyclononane, Acetamide, NMethylAcetamide, Disulfide, ZDiene,
    EButene, Thiophene, MethylCyclobutane, PropylCyclopropane, Cumulene,
    SodiumEthyl, Cyclooctadiene, DimethylSulfone, MethylCyclononane,
    Bicyclohexene, Bicyclononane, OXylene, EPentene, HexaneMethane>>

---------------------------------------------------------------------------
(* Bounds of the model                                                     *)

\* alkanes of up to MaxChain carbons are in the zoo
MaxChain == 7
\* invocations of setTopolBounds on the same matrix
MaxCalls == 2

\* Width of `unsigned int`, scaled down from 32 bits; std::uint64_t and
\* `unsigned long` have twice this width.
UIntBits == 7
UIntMod == 2 ^ UIntBits
ULongMod == 2 ^ (2 * UIntBits)

RECURSIVE CubeRootFrom(_, _)
CubeRootFrom(n, r) ==
  IF (r + 1) * (r + 1) * (r + 1) > n THEN r ELSE CubeRootFrom(n, r + 1)

\* static_cast<size_t>(std::pow(numeric_limits<uint64_t>::max(), 1. / 3))
MAX_NUM_BONDS == CubeRootFrom(ULongMod - 1, 0)

\* the zoo: the named molecules, the alkanes with 0..MaxChain carbons, and
\* one alkane with MAX_NUM_BONDS bonds
NumMols == Len(NamedMols) + MaxChain + 2

Mol(id) ==
  IF id <= Len(NamedMols) THEN NamedMols[id]
  ELSE IF id < NumMols THEN Chain(id - Len(NamedMols) - 1)
  ELSE Chain(MAX_NUM_BONDS + 1)

getNumAtoms(mol) == Cardinality(DOMAIN mol.atoms)
getNumBonds(mol) == Cardinality(DOMAIN mol.bonds)

AtomIds(mol) == DOMAIN mol.atoms
BondIds(mol) == DOMAIN mol.bonds

\* index of the bond between two atoms, -1 when there is none
getBondBetweenAtoms(mol, a, b) ==
  LET S == {x \in BondIds(mol) :
              \/ (mol.bonds[x].beg = a /\ mol.bonds[x].end = b)
              \/ (mol.bonds[x].beg = b /\ mol.bonds[x].end = a)}
  IN IF S = {} THEN -1 ELSE CHOOSE x \in S : TRUE

getOtherAtomIdx(mol, bid, a) ==
  IF mol.bonds[bid].beg = a THEN mol.bonds[bid].end ELSE mol.bonds[bid].beg

RECURSIVE SortedSeq(_)
SortedSeq(S) ==
  IF S = {} THEN <<>>
  ELSE LET x == CHOOSE y \in S : \A z \in S : y <= z
       IN <<x>> \o SortedSeq(S \ {x})

\* the bonds of an atom, in the order mol.atomBonds / getAtomBonds yields
atomBonds(mol, a) ==
  SortedSeq({x \in BondIds(mol) :
               mol.bonds[x].beg = a \/ mol.bonds[x].end = a})

getDegree(mol, a) == Len(atomBonds(mol, a))

SeqHas(seq, x) == \E k \in 1..Len(seq) : seq[k] = x

numAtomRings(mol, a) ==
  Cardinality({k \in 1..Len(mol.atomRings) : SeqHas(mol.atomRings[k], a)})
numBondRings(mol, b) ==
  Cardinality({k \in 1..Len(mol.bondRings) : SeqHas(mol.bondRings[k], b)})
isAtomInRingOfSize(mol, a, size) ==
  \E k \in 1..Len(mol.atomRings) :
    Len(mol.atomRings[k]) = size /\ SeqHas(mol.atomRings[k], a)
isBondInRingOfSize(mol, b, size) ==
  \E k \in 1..Len(mol.bondRings) :
    Len(mol.bondRings[k]) = size /\ SeqHas(mol.bondRings[k], b)

\* PeriodicTable::getRvdw
getRvdw(z) ==
  CASE z = 1 -> 1200 [] z = 6 -> 1700 [] z = 7 -> 1600 [] z = 8 -> 1550
    [] z = 11 -> 2200 [] z = 16 -> 1800 [] OTHER -> 2000

\* entry of MolOps::getDistanceMat for two atoms with no path between them
NoPath == 100000000

neighborSet(mol, S) ==
  {getOtherAtomIdx(mol, x, mol.bonds[x].beg) : x \in
     {y \in BondIds(mol) : mol.bonds[y].beg \in S}}
  \cup
  {getOtherAtomIdx(mol, x, mol.bonds[x].end) : x \in
     {y \in BondIds(mol) : mol.bonds[y].end \in S}}

\* number of bonds on the shortest path from the atoms of frontier (k bonds
\* away from the start already) to atom b
RECURSIVE bondsBetween(_, _, _, _, _)
bondsBetween(mol, frontier, seen, b, k) ==
  IF b \in frontier THEN k
  ELSE LET nxt == neighborSet(mol, frontier) \ seen
       IN IF nxt = {} THEN NoPath
          ELSE bondsBetween(mol, nxt, seen \cup nxt, b, k + 1)

\* MolOps::getDistanceMat: shortest path in bonds, as a flat npt*npt array
getDistanceMat(mol) ==
  LET n == getNumAtoms(mol)
  IN [x \in 0..(n * n - 1) |->
        bondsBetween(mol, {x \div n}, {x \div n}, x % n, 0)]

---------------------------------------------------------------------------
(* ComputedData                                                            *)

SymmIdx(n) == {p \in (0..(n - 1)) \X (0..(n - 1)) : p[2] <= p[1]}

ComputedData(nAtoms, nBonds) ==
  [bondLengths |-> [b \in 0..(nBonds - 1) |-> 0],
   bondAdj |-> [p \in SymmIdx(nBonds) |-> -1],
   bondAngles |-> [p \in SymmIdx(nBonds) |-> -1],
   paths14 |-> <<>>,
   cisPaths |-> {},
   transPaths |-> {},
   set15Atoms |-> {}]

\* the state a pass works on: matrix, accumulator, and whether no
\* CHECK_INVARIANT has thrown so far; log and via observe the pass: the
\* dispatch calls it made and the routines it wrote the matrix with
PassState(m, a) ==
  [m |-> m, a |-> a, ok |-> TRUE, log |-> <<>>, log13 |-> <<>>,
   log15 |-> <<>>, via |-> {}]

\* variant: the pass writes both bounds itself
CheckAndSetDirect(st, i, j, lb, ub) ==
  IF ~st.ok THEN st
  ELSE [st EXCEPT !.m = setLowerBound(setUpperBound(st.m, i, j, ub), i, j, lb),
                  !.via = @ \cup {"setUpperBound", "setLowerBound"}]

\* _checkAndSetBounds inside a pass: a throw ends the pass
CheckAndSet(st, i, j, lb, ub) ==
  IF ~st.ok THEN st
  ELSE LET r == _checkAndSetBounds(i, j, lb, ub, st.m)
       IN [st EXCEPT !.m = r.m, !.ok = r.ok,
                     !.via = @ \cup {"_checkAndSetBounds"}]

---------------------------------------------------------------------------
(* Pass 1: set12Bounds                                                     *)

squishAtoms(mol) ==
  UNION {{mol.bonds[b].beg, mol.bonds[b].end} : b \in
           {x \in BondIds(mol) :
              /\ mol.bonds[x].conj
              /\ (mol.atoms[mol.bonds[x].beg].Z > 10 \/
                  mol.atoms[mol.bonds[x].end].Z > 10)
              /\ isBondInRingOfSize(mol, x, 5)}}

set12Bond(mol, st, bid) ==
  LET bond == mol.bonds[bid]
      begId == bond.beg
      endId == bond.end
  IN IF mol.atoms[begId].prm /\ mol.atoms[endId].prm /\ bond.type # "ZERO"
     THEN LET bl == bond.bl
              extraSquish ==
                IF begId \in squishAtoms(mol) \/ endId \in squishAtoms(mol)
                THEN 200 ELSE 0
          IN [st EXCEPT
                !.a.bondLengths[bid] = bl,
                !.via = @ \cup {"setUpperBound", "setLowerBound"},
                !.m = setLowerBound(
                        setUpperBound(st.m, begId, endId,
                                      bl + extraSquish + DIST12_DELTA),
                        begId, endId, bl - extraSquish - DIST12_DELTA)]
     ELSE LET vw1 == getRvdw(mol.atoms[begId].Z)
              vw2 == getRvdw(mol.atoms[endId].Z)
              bl == (vw1 + vw2) \div 2
          IN [st EXCEPT
                !.a.bondLengths[bid] = bl,
                !.via = @ \cup {"setUpperBound", "setLowerBound"},
                !.m = setLowerBound(
                        setUpperBound(st.m, begId, endId, (15 * bl) \div 10),
                        begId, endId, (5 * bl) \div 10)]

RECURSIVE set12Loop(_, _, _)
set12Loop(mol, st, bid) ==
  IF bid >= getNumBonds(mol) THEN st
  ELSE set12Loop(mol, set12Bond(mol, st, bid), bid + 1)

set12Bounds(mol, st) == set12Loop(mol, st, 0)

---------------------------------------------------------------------------
(* Pass 5: setLowerBoundVDW.  The useTopolScaling argument is unnamed and  *)
(* unused in the definition.                                               *)

\* variant: unset is taken to mean negative
vdwIsUnsetNegative(lb) == lb < 0

\* variant: the lower bound is compared with the upper sentinel
vdwIsUnsetSentinel(lb) == lb < MAX_UPPER

vdwIsUnset(lb) == lb < DIST12_DELTA

vdwLowerBound(mol, dmat, npt, i, j) ==
  LET vw1 == getRvdw(mol.atoms[i].Z)
      vw2 == getRvdw(mol.atoms[j].Z)
  IN IF dmat[i * npt + j] = 4 THEN VDW_SCALE_15(vw1 + vw2)
     ELSE IF dmat[i * npt + j] = 5 THEN VDW_SCALE_16(vw1 + vw2)
     ELSE vw1 + vw2

\* variant: without useTopolScaling the sum of the radii is not scaled
setLowerBoundVDWAsDocumented(mol, m, useTopolScaling, dmat) ==
  LET npt == getNumAtoms(mol)
  IN [m EXCEPT !.lb =
        [p \in DOMAIN m.lb |->
           IF vdwIsUnset(m.lb[p])
           THEN IF useTopolScaling
                THEN vdwLowerBound(mol, dmat, npt, p[1], p[2])
                ELSE getRvdw(mol.atoms[p[1]].Z) + getRvdw(mol.atoms[p[2]].Z)
           ELSE m.lb[p]]]

\* the flag is an unnamed parameter of the definition: it is not read
setLowerBoundVDW(mol, m, useTopolScaling, dmat) ==
  LET npt == getNumAtoms(mol)
  IN [m EXCEPT !.lb =
        [p \in DOMAIN m.lb |->
           IF vdwIsUnset(m.lb[p])
           THEN vdwLowerBound(mol, dmat, npt, p[1], p[2])
           ELSE m.lb[p]]]

\* the routines setLowerBoundVDW writes the matrix with: mmat->setLowerBound
\* for each pair it finds unset
vdwWriters(m) ==
  IF \E p \in DOMAIN m.lb : vdwIsUnset(m.lb[p]) THEN {"setLowerBound"} ELSE {}

---------------------------------------------------------------------------
(* collectBondsAndAngles                                                   *)

\* variant: a TRIPLE bond does not raise the flag
angleRecordDoubleOnly(mol, i, j) ==
  LET bondi == mol.bonds[i]
      bondj == mol.bonds[j]
      s == IF bondi.end = bondj.beg \/ bondi.end = bondj.end
           THEN bondi.end ELSE bondi.beg
      flag == IF bondi.type = "DOUBLE" /\ bondj.type = "DOUBLE" /\
                 getDegree(mol, s) = 2 THEN 1 ELSE 0
  IN <<getOtherAtomIdx(mol, i, s), s, getOtherAtomIdx(mol, j, s), flag>>

angleRecord(mol, i, j) ==
  LET bondi == mol.bonds[i]
      bondj == mol.bonds[j]
      aid11 == bondi.beg
      aid12 == bondi.end
      aid21 == bondj.beg
      aid22 == bondj.end
      t == IF aid12 = aid21 THEN <<aid11, aid12, aid22>>
           ELSE IF aid12 = aid22 THEN <<aid11, aid12, aid21>>
           ELSE IF aid11 = aid21 THEN <<aid12, aid11, aid22>>
           ELSE IF aid11 = aid22 THEN <<aid12, aid11, aid21>>
           ELSE <<0, 0, 0>>
      flag == IF bondi.type = "TRIPLE" \/ bondj.type = "TRIPLE" THEN 1
              ELSE IF bondi.type = "DOUBLE" /\ bondj.type = "DOUBLE" /\
                      getDegree(mol, t[2]) = 2 THEN 1
              ELSE 0
  IN <<t[1], t[2], t[3], flag>>

bondsShareAtom(mol, i, j) ==
  LET bondi == mol.bonds[i]
      bondj == mol.bonds[j]
  IN ~(bondi.beg # bondj.beg /\ bondi.beg # bondj.end /\
       bondi.end # bondj.beg /\ bondi.end # bondj.end)

RECURSIVE collectAngles(_, _, _, _)
collectAngles(mol, i, j, out) ==
  IF j >= getNumBonds(mol) THEN out
  ELSE collectAngles(mol, i, j + 1,
         IF bondsShareAtom(mol, i, j)
         THEN Append(out, angleRecord(mol, i, j)) ELSE out)

RECURSIVE collectLoop(_, _, _)
collectLoop(mol, i, out) ==
  IF i >= getNumBonds(mol) THEN out
  ELSE collectLoop(mol, i + 1,
         [bonds |-> Append(out.bonds,
                           <<mol.bonds[i].beg, mol.bonds[i].end>>),
          angles |-> collectAngles(mol, i, i + 1, out.angles)])

\* bonds.resize(0); angles.resize(0); then the double loop
collectBondsAndAngles(mol, oldBonds, oldAngles) ==
  collectLoop(mol, 0, [bonds |-> <<>>, angles |-> <<>>])

---------------------------------------------------------------------------
(* Geometry helpers of Geometry/Utils.h                                    *)

\* sqrt(d1*d1 + d2*d2 - 2*d1*d2*cos(angle))
compute13Dist(d1, d2, angle) ==
  Sqrt(d1 * d1 + d2 * d2 - 2 * d1 * MulQ(d2, CosQ(angle)))

\* sqrt(dx*dx + dy*dy + dz*dz)
Norm(dx, dy, dz) == Sqrt(dx * dx + dy * dy + dz * dz)

compute14DistCis(d1, d2, d3, ang12, ang23) ==
  Norm(d2 - MulQ(d3, CosQ(ang23)) - MulQ(d1, CosQ(ang12)),
       MulQ(d3, SinQ(ang23)) - MulQ(d1, SinQ(ang12)),
       0)

compute14DistTrans(d1, d2, d3, ang12, ang23) ==
  Norm(d2 - MulQ(d3, CosQ(ang23)) - MulQ(d1, CosQ(ang12)),
       MulQ(d3, SinQ(ang23)) + MulQ(d1, SinQ(ang12)),
       0)

\* torsion angle torAng, in 1/10 degree
compute14Dist3D(d1, d2, d3, ang12, ang23, torAng) ==
  Norm(d2 - MulQ(d3, CosQ(ang23)) - MulQ(d1, CosQ(ang12)),
       MulQ(MulQ(d3, SinQ(ang23)), CosQ(torAng)) - MulQ(d1, SinQ(ang12)),
       MulQ(MulQ(d3, SinQ(ang23)), SinQ(torAng)))

---------------------------------------------------------------------------
(* Pass 2: set13Bounds                                                     *)

isLargerSP2Atom(mol, a) ==
  mol.atoms[a].Z > 13 /\ mol.atoms[a].hyb = "SP2" /\ numAtomRings(mol, a) > 0

distTol13(mol, aid1, aid, aid3) ==
  DIST13_TOL * (IF isLargerSP2Atom(mol, aid1) THEN 2 ELSE 1)
             * (IF isLargerSP2Atom(mol, aid) THEN 2 ELSE 1)
             * (IF isLargerSP2Atom(mol, aid3) THEN 2 ELSE 1)

_set13BoundsHelper(aid1, aid, aid3, angle, st, mol) ==
  LET bid1 == getBondBetweenAtoms(mol, aid1, aid)
      bid2 == getBondBetweenAtoms(mol, aid, aid3)
      dl == compute13Dist(st.a.bondLengths[bid1], st.a.bondLengths[bid2],
                          angle)
      distTol == distTol13(mol, aid1, aid, aid3)
  IN CheckAndSet(st, aid1, aid3, dl - distTol, dl + distTol)

_setRingAngle(aHyb, ringSize) ==
  IF (aHyb = "SP2" /\ ringSize <= 8) \/ ringSize = 3 \/ ringSize = 4
  THEN 1800 - 3600 \div ringSize
  ELSE IF aHyb = "SP3" THEN (IF ringSize = 5 THEN 1040 ELSE 1095)
  ELSE IF aHyb = "SP3D" THEN 1050
  ELSE IF aHyb = "SP3D2" THEN 900
  ELSE 1200

\* a stable insertion into a sequence of rings ordered by size
RECURSIVE InsertBySize(_, _)
InsertBySize(sorted, ring) ==
  IF sorted = <<>> THEN <<ring>>
  ELSE IF Len(ring) < Len(Head(sorted)) THEN <<ring>> \o sorted
  ELSE <<Head(sorted)>> \o InsertBySize(Tail(sorted), ring)

RECURSIVE SortRings(_)
SortRings(rings) ==
  IF rings = <<>> THEN <<>>
  ELSE InsertBySize(SortRings(SubSeq(rings, 1, Len(rings) - 1)),
                    rings[Len(rings)])

\* variant: visited is not incremented
record13Uncounted(s, bid1, bid2, aid2, angle, phase, rSize) ==
  IF ~s.ok THEN s
  ELSE [s EXCEPT !.a.bondAngles[Pair(bid1, bid2)] = angle,
                 !.a.bondAdj[Pair(bid1, bid2)] = aid2,
                 !.angleTaken[aid2] = @ + angle,
                 !.log13 = Append(@, [phase |-> phase, rSize |-> rSize,
                                      aid2 |-> aid2, bid1 |-> bid1,
                                      bid2 |-> bid2, angle |-> angle,
                                      visited |-> s.visited[aid2],
                                      angleTaken |-> s.angleTaken[aid2],
                                      was |-> s.a.bondAngles[Pair(bid1,
                                                                  bid2)]])]

\* the bookkeeping both phases do after choosing an angle
\* (phase is "ring" with the ring's size, or "visited" / "chain" for the two
\* branches of the atom loop)
record13(s, bid1, bid2, aid2, angle, phase, rSize) ==
  IF ~s.ok THEN s
  ELSE [s EXCEPT !.a.bondAngles[Pair(bid1, bid2)] = angle,
                 !.a.bondAdj[Pair(bid1, bid2)] = aid2,
                 !.visited[aid2] = @ + 1,
                 !.angleTaken[aid2] = @ + angle,
                 !.log13 = Append(@, [phase |-> phase, rSize |-> rSize,
                                      aid2 |-> aid2, bid1 |-> bid1,
                                      bid2 |-> bid2, angle |-> angle,
                                      visited |-> s.visited[aid2],
                                      angleTaken |-> s.angleTaken[aid2],
                                      was |-> s.a.bondAngles[Pair(bid1,
                                                                  bid2)]])]

\* variant: no test of donePaths, a pair of bonds is processed in every ring
\* walk that meets it
set13RingStepEveryWalk(mol, s, rSize, aid1, aid2, aid3) ==
  LET bid1 == getBondBetweenAtoms(mol, aid1, aid2)
      bid2 == getBondBetweenAtoms(mol, aid2, aid3)
  IN IF ~s.ok THEN s
     ELSE IF bid1 < 0 \/ bid2 < 0 THEN [s EXCEPT !.ok = FALSE]
     ELSE record13(_set13BoundsHelper(aid1, aid2, aid3,
                                      _setRingAngle(mol.atoms[aid2].hyb, rSize),
                                      s, mol),
                   bid1, bid2, aid2,
                   _setRingAngle(mol.atoms[aid2].hyb, rSize), "ring", rSize)

\* one interior angle (aid1, aid2, aid3) of a ring walk
set13RingStep(mol, s, rSize, aid1, aid2, aid3) ==
  LET nb == getNumBonds(mol)
      bid1 == getBondBetweenAtoms(mol, aid1, aid2)
      bid2 == getBondBetweenAtoms(mol, aid2, aid3)
      id1 == nb * bid1 + bid2
      id2 == nb * bid2 + bid1
  IN IF ~s.ok THEN s
     ELSE IF bid1 < 0 \/ bid2 < 0 THEN [s EXCEPT !.ok = FALSE]
     ELSE IF id1 \notin s.donePaths /\ id2 \notin s.donePaths
     THEN LET angle == _setRingAngle(mol.atoms[aid2].hyb, rSize)
              s1 == _set13BoundsHelper(aid1, aid2, aid3, angle, s, mol)
              s2 == record13(s1, bid1, bid2, aid2, angle, "ring", rSize)
          IN IF ~s2.ok THEN s2
             ELSE [s2 EXCEPT !.donePaths = @ \cup {id1, id2}]
     ELSE s

RECURSIVE set13RingWalk(_, _, _, _, _)
set13RingWalk(mol, s, ringi, i, aid1) ==
  LET rSize == Len(ringi)
  IN IF i >= rSize THEN s
     ELSE LET aid2 == ringi[i + 1]
              aid3 == IF i = rSize - 1 THEN ringi[1] ELSE ringi[i + 2]
          IN set13RingWalk(mol,
               set13RingStep(mol, s, rSize, aid1, aid2, aid3),
               ringi, i + 1, aid2)

RECURSIVE set13Rings(_, _, _)
set13Rings(mol, s, rings) ==
  IF rings = <<>> THEN s
  ELSE set13Rings(mol,
         set13RingWalk(mol, s, Head(rings), 0, Head(rings)[Len(Head(rings))]),
         Tail(rings))

\* (2*M_PI - angleTaken) / (n13 - visited); NaN stands for the result of a
\* division by zero
NaN == -1000000000
sp2RemainingAngle(taken, n13, visited) ==
  IF n13 - visited = 0 THEN NaN ELSE (3600 - taken) \div (n13 - visited)

\* angle for a still unassigned pair at an atom the ring phase has visited
visitedAngle(mol, s, aid2, deg, n13) ==
  LET ahyb == mol.atoms[aid2].hyb
  IN IF ahyb = "SP2"
     THEN sp2RemainingAngle(s.angleTaken[aid2], n13, s.visited[aid2])
     ELSE IF ahyb = "SP3"
     THEN (IF isAtomInRingOfSize(mol, aid2, 3) THEN 1160
           ELSE IF isAtomInRingOfSize(mol, aid2, 4) THEN 1120
           ELSE 1095)
     ELSE IF mol.atoms[aid2].nts THEN mol.atoms[aid2].ideal
     ELSE IF deg = 5 THEN 1050
     ELSE IF deg = 6 THEN 1350
     ELSE 1200

\* angle at an atom that is in no ring
chainAngle(mol, aid2) ==
  LET ahyb == mol.atoms[aid2].hyb
  IN IF mol.atoms[aid2].nts THEN mol.atoms[aid2].ideal
     ELSE IF ahyb = "SP" THEN 1800
     ELSE IF ahyb = "SP2" THEN 1200
     ELSE IF ahyb = "SP3" THEN 1095
     ELSE IF ahyb = "SP3D" THEN 1050
     ELSE IF ahyb = "SP3D2" THEN 1350
     ELSE 1200

\* the pair (bid1, bid2) of bonds at aid2, bid2 before bid1 in atomBonds
set13Pair(mol, s, aid2, bid1, bid2, wasVisited) ==
  LET aid1 == getOtherAtomIdx(mol, bid1, aid2)
      aid3 == getOtherAtomIdx(mol, bid2, aid2)
      deg == getDegree(mol, aid2)
      n13 == (deg * (deg - 1)) \div 2
  IN IF ~s.ok THEN s
     ELSE IF wasVisited
     THEN IF s.a.bondAngles[Pair(bid1, bid2)] < 0
          THEN LET angle == visitedAngle(mol, s, aid2, deg, n13)
               IN record13(
                    _set13BoundsHelper(aid1, aid2, aid3, angle, s, mol),
                    bid1, bid2, aid2, angle, "visited", 0)
          ELSE s
     ELSE LET angle == chainAngle(mol, aid2)
              dmax == s.a.bondLengths[bid1] + s.a.bondLengths[bid2]
          IN record13(
               IF deg <= 4 \/ (mol.atoms[aid2].nts /\ mol.atoms[aid2].perm)
               THEN _set13BoundsHelper(aid1, aid2, aid3, angle, s, mol)
               ELSE CheckAndSet(s, aid1, aid3, 1000, (12 * dmax) \div 10),
               bid1, bid2, aid2, angle, "chain", 0)

\* loops over beg1 (k1) and beg2 (k2 < k1), positions in atomBonds(aid2)
RECURSIVE set13AtomLoop(_, _, _, _, _, _)
set13AtomLoop(mol, s, aid2, k1, k2, wasVisited) ==
  LET bs == atomBonds(mol, aid2)
  IN IF k1 > Len(bs) THEN s
     ELSE IF k2 >= k1 THEN set13AtomLoop(mol, s, aid2, k1 + 1, 1, wasVisited)
     ELSE set13AtomLoop(mol,
            set13Pair(mol, s, aid2, bs[k1], bs[k2], wasVisited),
            aid2, k1, k2 + 1, wasVisited)

\* variant: the second phase skips every atom the ring phase has visited
set13AtomUnvisited(mol, s, aid2) ==
  IF s.visited[aid2] >= 1 THEN s
  ELSE set13AtomLoop(mol, s, aid2, 1, 1, FALSE)

set13Atom(mol, s, aid2) ==
  LET deg == getDegree(mol, aid2)
      n13 == (deg * (deg - 1)) \div 2
  IN IF n13 = s.visited[aid2] THEN s
     ELSE set13AtomLoop(mol, s, aid2, 1, 1, s.visited[aid2] >= 1)

RECURSIVE set13Atoms(_, _, _)
set13Atoms(mol, s, aid2) ==
  IF aid2 >= getNumAtoms(mol) THEN s
  ELSE set13Atoms(mol, set13Atom(mol, s, aid2), aid2 + 1)

\* the locals visited, angleTaken and donePaths ride along with the state
set13Run(mol, st) ==
  LET npt == getNumAtoms(mol)
      s0 == [m |-> st.m, a |-> st.a, ok |-> st.ok, log |-> st.log,
             log13 |-> st.log13, log15 |-> st.log15,
             via |-> st.via,
             visited |-> [i \in 0..(npt - 1) |-> 0],
             angleTaken |-> [i \in 0..(npt - 1) |-> 0],
             donePaths |-> {}]
  IN set13Atoms(mol, set13Rings(mol, s0, SortRings(mol.atomRings)), 0)

set13Bounds(mol, st) ==
  LET s == set13Run(mol, st)
  IN [m |-> s.m, a |-> s.a, ok |-> s.ok, log |-> s.log, log13 |-> s.log13,
      log15 |-> s.log15, via |-> s.via]

---------------------------------------------------------------------------
(* Pass 3: set14Bounds and its dispatch routines                           *)

\* static_cast<unsigned long>(bid1) * nb * nb + bid2 * nb + bid3 with
\* `unsigned int nb`: the middle product is formed in unsigned int
PackKey(b1, b2, b3, nb) ==
  (((b1 * nb * nb) % ULongMod) + ((b2 * nb) % UIntMod) + b3) % ULongMod

\* bid1 * nb * nb + bid2 * nb + bid3 with `std::uint64_t nb`
PackKey64(b1, b2, b3, nb) == (b1 * nb * nb + b2 * nb + b3) % ULongMod

\* what every dispatch routine reads first
Path14(mol, st, bid1, bid2, bid3) ==
  LET atm2 == st.a.bondAdj[Pair(bid1, bid2)]
      atm3 == st.a.bondAdj[Pair(bid2, bid3)]
  IN [atm2 |-> atm2, atm3 |-> atm3,
      aid1 |-> IF atm2 < 0 THEN -1 ELSE getOtherAtomIdx(mol, bid1, atm2),
      aid4 |-> IF atm3 < 0 THEN -1 ELSE getOtherAtomIdx(mol, bid3, atm3),
      bl1 |-> st.a.bondLengths[bid1],
      bl2 |-> st.a.bondLengths[bid2],
      bl3 |-> st.a.bondLengths[bid3],
      ba12 |-> st.a.bondAngles[Pair(bid1, bid2)],
      ba23 |-> st.a.bondAngles[Pair(bid2, bid3)]]

\* getAtomWithIdx on a -1 adjacency entry fails its range check
Path14Valid(q) == q.atm2 >= 0 /\ q.atm3 >= 0

Cis14(q) == compute14DistCis(q.bl1, q.bl2, q.bl3, q.ba12, q.ba23)
Trans14(q) == compute14DistTrans(q.bl1, q.bl2, q.bl3, q.ba12, q.ba23)

\* if (fabs(du - dl) < DIST12_DELTA): widen a degenerate range
widen14(r) ==
  IF Abs(r.du - r.dl) < DIST12_DELTA
  THEN [dl |-> r.dl - GEN_DIST_TOL, du |-> r.du + GEN_DIST_TOL]
  ELSE r

\* dl = cis and du = trans distance, exchanged (where the routine does so)
\* when du < dl
orderedRange14(c, t, swap) ==
  [dl |-> IF swap /\ t < c THEN t ELSE c, du |-> IF swap /\ t < c THEN c ELSE t]

\* dl, du when the torsion may be anything between 0 and 180 degrees
OtherRange(q, swap) == widen14(orderedRange14(Cis14(q), Trans14(q), swap))

FixedRange(d) == [dl |-> d - GEN_DIST_TOL, du |-> d + GEN_DIST_TOL]

\* insert into cisPaths / transPaths, _checkAndSetBounds, paths14.push_back
Emit14(mol, st, bid1, bid2, bid3, aid1, aid4, r, type) ==
  LET nb == getNumBonds(mol)
      keys == {PackKey(bid1, bid2, bid3, nb), PackKey(bid3, bid2, bid1, nb)}
      s1 == [st EXCEPT
               !.a.cisPaths = IF type = "CIS" THEN @ \cup keys ELSE @,
               !.a.transPaths = IF type = "TRANS" THEN @ \cup keys ELSE @]
      s2 == CheckAndSet(s1, aid1, aid4, r.dl, r.du)
  IN IF ~s2.ok THEN s2
     ELSE [s2 EXCEPT !.a.paths14 =
             Append(@, [bid1 |-> bid1, bid2 |-> bid2, bid3 |-> bid3,
                        type |-> type])]

StereoRank(s) ==
  CASE s = "NONE" -> 0 [] s = "STEREOANY" -> 1 [] s = "STEREOZ" -> 2
    [] s = "STEREOE" -> 3 [] s = "STEREOCIS" -> 4 [] s = "STEREOTRANS" -> 5

\* variant: the stereo is flipped unless both stereo atoms are the end atoms
_getAtomStereoPairwise(bnd, aid1, aid4) ==
  LET stype == bnd.stereo
  IN IF StereoRank(stype) > 1 /\ Len(bnd.stereoAtoms) >= 2
     THEN IF (bnd.stereoAtoms[1] # aid1) \/ (bnd.stereoAtoms[2] # aid4)
          THEN CASE stype = "STEREOZ" -> "STEREOE"
                 [] stype = "STEREOE" -> "STEREOZ"
                 [] stype = "STEREOCIS" -> "STEREOTRANS"
                 [] stype = "STEREOTRANS" -> "STEREOCIS"
          ELSE stype
     ELSE stype

_getAtomStereo(bnd, aid1, aid4) ==
  LET stype == bnd.stereo
  IN IF StereoRank(stype) > 1 /\ Len(bnd.stereoAtoms) >= 2
     THEN IF (bnd.stereoAtoms[1] # aid1) # (bnd.stereoAtoms[2] # aid4)
          THEN CASE stype = "STEREOZ" -> "STEREOE"
                 [] stype = "STEREOE" -> "STEREOZ"
                 [] stype = "STEREOCIS" -> "STEREOTRANS"
                 [] stype = "STEREOTRANS" -> "STEREOCIS"
          ELSE stype
     ELSE stype

\* the first bond ring that holds bid1 also holds bid3
FirstRingOfHas(mol, bid1, bid3) ==
  LET ks == {k \in 1..Len(mol.bondRings) : SeqHas(mol.bondRings[k], bid1)}
  IN ks # {} /\
     SeqHas(mol.bondRings[CHOOSE k \in ks : \A x \in ks : k <= x], bid3)

inRingPreference(mol, q, bid1, bid2, bid3, ringSize) ==
  LET stype == _getAtomStereo(mol.bonds[bid2], q.aid1, q.aid4)
  IN IF ringSize <= 8 /\ mol.atoms[q.atm2].hyb = "SP2" /\
        mol.atoms[q.atm3].hyb = "SP2" /\
        stype # "STEREOE" /\ stype # "STEREOTRANS"
     THEN IF numBondRings(mol, bid2) > 1
          THEN IF numBondRings(mol, bid1) = 1 /\ numBondRings(mol, bid3) = 1 /\
                  FirstRingOfHas(mol, bid1, bid3)
               THEN "CIS" ELSE "OTHER"
          ELSE "CIS"
     ELSE IF stype = "STEREOZ" \/ stype = "STEREOCIS" THEN "CIS"
     ELSE IF stype = "STEREOE" \/ stype = "STEREOTRANS" THEN "TRANS"
     ELSE "OTHER"

\* dmat[max(aid1, aid4) * npt + min(aid1, aid4)] < 2.9
\* variant: only bonded terminal atoms count as too close
tooClose14Bonded(mol, dmat, aid1, aid4) ==
  dmat[Max(aid1, aid4) * getNumAtoms(mol) + Min(aid1, aid4)] < 2

\* variant: the threshold of the 1-5 preflight (3.9) in place of 2.9
tooClose14Wide(mol, dmat, aid1, aid4) ==
  dmat[Max(aid1, aid4) * getNumAtoms(mol) + Min(aid1, aid4)] < 4

tooClose14(mol, dmat, aid1, aid4) ==
  dmat[Max(aid1, aid4) * getNumAtoms(mol) + Min(aid1, aid4)] < 3

\* a bond aid1 - atm3 or aid4 - atm2: not a 1-4 contact in fused rings
fusedFalse14(mol, q) ==
  \/ getBondBetweenAtoms(mol, q.aid1, q.atm3) >= 0
  \/ getBondBetweenAtoms(mol, q.aid4, q.atm2) >= 0

Fail(st) == [st EXCEPT !.ok = FALSE]

_setInRing14Bounds(mol, bid1, bid2, bid3, st, dmat, ringSize) ==
  LET q == Path14(mol, st, bid1, bid2, bid3)
  IN IF ~st.ok THEN st
     ELSE IF ~Path14Valid(q) THEN Fail(st)
     ELSE IF tooClose14(mol, dmat, q.aid1, q.aid4) THEN st
     ELSE IF ~(q.ba12 > 0 /\ q.ba23 > 0) THEN Fail(st)
     ELSE LET type == inRingPreference(mol, q, bid1, bid2, bid3, ringSize)
              r == IF type = "CIS" THEN FixedRange(Cis14(q))
                   ELSE IF type = "TRANS" THEN FixedRange(Trans14(q))
                   ELSE OtherRange(q, TRUE)
          IN Emit14(mol, st, bid1, bid2, bid3, q.aid1, q.aid4, r, type)

_setTwoInSameRing14Bounds(mol, bid1, bid2, bid3, st, dmat) ==
  LET q == Path14(mol, st, bid1, bid2, bid3)
  IN IF ~st.ok THEN st
     ELSE IF ~Path14Valid(q) THEN Fail(st)
     ELSE IF tooClose14(mol, dmat, q.aid1, q.aid4) THEN st
     ELSE IF fusedFalse14(mol, q) THEN st
     ELSE IF ~(q.ba12 > 0 /\ q.ba23 > 0) THEN Fail(st)
     ELSE IF mol.atoms[q.atm2].hyb = "SP2" /\ mol.atoms[q.atm3].hyb = "SP2"
     THEN Emit14(mol, st, bid1, bid2, bid3, q.aid1, q.aid4,
                 FixedRange(Trans14(q)), "TRANS")
     ELSE Emit14(mol, st, bid1, bid2, bid3, q.aid1, q.aid4,
                 OtherRange(q, TRUE), "OTHER")

_setTwoInDiffRing14Bounds(mol, bid1, bid2, bid3, st, dmat) ==
  _setInRing14Bounds(mol, bid1, bid2, bid3, st, dmat, 0)

\* variant: a ring size above 8 is handed on
_setShareRingBond14BoundsLarge(mol, bid1, bid2, bid3, st, dmat) ==
  _setInRing14Bounds(mol, bid1, bid2, bid3, st, dmat, 9)

_setShareRingBond14Bounds(mol, bid1, bid2, bid3, st, dmat) ==
  _setInRing14Bounds(mol, bid1, bid2, bid3, st, dmat, 0)

\* variant: no count of the hydrogens on a nitrogen atm2
_checkAmideEster14AnyN(mol, bid1, bid3, atm1, atm2, atm3, atm4) ==
  LET a2Num == mol.atoms[atm2].Z
      a3Num == mol.atoms[atm3].Z
      a4Num == mol.atoms[atm4].Z
  IN a3Num = 6 /\ mol.bonds[bid3].type = "DOUBLE" /\
     (a4Num = 8 \/ a4Num = 7) /\ mol.bonds[bid1].type = "SINGLE" /\
     (a2Num = 8 \/ a2Num = 7)

_checkAmideEster14(mol, bid1, bid3, atm1, atm2, atm3, atm4) ==
  LET a2Num == mol.atoms[atm2].Z
      a3Num == mol.atoms[atm3].Z
      a4Num == mol.atoms[atm4].Z
  IN a3Num = 6 /\ mol.bonds[bid3].type = "DOUBLE" /\
     (a4Num = 8 \/ a4Num = 7) /\ mol.bonds[bid1].type = "SINGLE" /\
     (a2Num = 8 \/ (a2Num = 7 /\ mol.atoms[atm2].nH = 1))

\* the neighbours of an atom, in atomBonds order
atomNeighbors(mol, a) ==
  [k \in 1..getDegree(mol, a) |-> getOtherAtomIdx(mol, atomBonds(mol, a)[k], a)]

\* the first element of seq that is not in skip, -1 when there is none
RECURSIVE FirstNotIn(_, _)
FirstNotIn(seq, skip) ==
  IF seq = <<>> THEN -1
  ELSE IF Head(seq) \notin skip THEN Head(seq)
  ELSE FirstNotIn(Tail(seq), skip)

_checkMacrocycleAllInSameRingAmideEster14(mol, atm1, atm2, atm3, atm4) ==
  LET a2Num == mol.atoms[atm2].Z
      a3Num == mol.atoms[atm3].Z
      res2 == FirstNotIn(atomNeighbors(mol, atm2), {atm1, atm3})
      res3 == FirstNotIn(atomNeighbors(mol, atm3), {atm2, atm4})
  IN IF a3Num # 6 THEN FALSE
     ELSE IF (a2Num = 7 \/ a2Num = 8) /\
             getDegree(mol, atm2) = 3 /\ getDegree(mol, atm3) = 3
     THEN /\ ~(res2 >= 0 /\
               ((mol.atoms[res2].Z # 6 /\ mol.atoms[res2].Z # 1) \/
                mol.bonds[getBondBetweenAtoms(mol, atm2, res2)].type
                  # "SINGLE"))
          /\ ~(res3 >= 0 /\
               (mol.atoms[res3].Z # 8 \/
                mol.bonds[getBondBetweenAtoms(mol, atm3, res3)].type
                  # "DOUBLE"))
     ELSE FALSE

_isCarbonyl(mol, at) ==
  /\ mol.atoms[at].Z = 6
  /\ getDegree(mol, at) > 2
  /\ \E k \in 1..getDegree(mol, at) :
       LET nbr == atomNeighbors(mol, at)[k]
       IN (mol.atoms[nbr].Z = 8 \/ mol.atoms[nbr].Z = 7) /\
          mol.bonds[getBondBetweenAtoms(mol, at, nbr)].type = "DOUBLE"

_checkAmideEster15(mol, bid1, bid3, atm1, atm2, atm3, atm4) ==
  LET a2Num == mol.atoms[atm2].Z
  IN (a2Num = 8 \/ (a2Num = 7 /\ mol.atoms[atm2].nH = 1)) /\
     mol.bonds[bid1].type = "SINGLE" /\
     mol.atoms[atm3].Z = 6 /\ mol.bonds[bid3].type = "SINGLE" /\
     _isCarbonyl(mol, atm3)

\* variant: the test on the terminal atom is inverted
secondaryAmideHHeavy(mol, atm1, atm2) ==
  mol.atoms[atm1].Z # 1 /\ mol.atoms[atm2].Z = 7 /\
  getDegree(mol, atm2) = 3 /\ mol.atoms[atm2].nH = 1

\* atm1 is the H of a secondary amide N (atm2), or atm4 that of atm3
secondaryAmideH(mol, atm1, atm2) ==
  mol.atoms[atm1].Z = 1 /\ mol.atoms[atm2].Z = 7 /\
  getDegree(mol, atm2) = 3 /\ mol.atoms[atm2].nH = 1

\* range and tag for a middle bond of type DOUBLE (shared by _setChain14Bounds
\* and _setMacrocycleAllInSameRing14Bounds)
double14(mol, q, bid1, bid2, bid3) ==
  IF mol.bonds[bid1].type = "DOUBLE" \/ mol.bonds[bid3].type = "DOUBLE"
  THEN [r |-> FixedRange(Cis14(q)), type |-> "CIS"]
  ELSE IF StereoRank(mol.bonds[bid2].stereo) > 1
  THEN LET stype == _getAtomStereo(mol.bonds[bid2], q.aid1, q.aid4)
       IN IF stype = "STEREOZ" \/ stype = "STEREOCIS"
          THEN [r |-> FixedRange(Cis14(q)), type |-> "CIS"]
          ELSE [r |-> FixedRange(Trans14(q)), type |-> "TRANS"]
  ELSE [r |-> OtherRange(q, FALSE), type |-> "OTHER"]

\* *S-S*: torsion of 90 degrees
disulfide14(q) ==
  LET d == compute14Dist3D(q.bl1, q.bl2, q.bl3, q.ba12, q.ba23, 900)
  IN [r |-> FixedRange(d), type |-> "OTHER"]

default14(q) == [r |-> [dl |-> Cis14(q), du |-> Trans14(q)], type |-> "OTHER"]

chainSingle14(mol, q, bid1, bid2, bid3, forceTransAmides) ==
  LET atm1 == q.aid1
      atm2 == q.atm2
      atm3 == q.atm3
      atm4 == q.aid4
      isH == secondaryAmideH(mol, atm1, atm2) \/
             secondaryAmideH(mol, atm4, atm3)
  IN IF mol.atoms[atm2].Z = 16 /\ mol.atoms[atm3].Z = 16 THEN disulfide14(q)
     ELSE IF _checkAmideEster14(mol, bid1, bid3, atm1, atm2, atm3, atm4) \/
             _checkAmideEster14(mol, bid3, bid1, atm4, atm3, atm2, atm1)
     THEN IF forceTransAmides
          THEN IF isH THEN [r |-> FixedRange(Trans14(q)), type |-> "TRANS"]
               ELSE [r |-> FixedRange(Cis14(q)), type |-> "CIS"]
          ELSE default14(q)
     ELSE IF _checkAmideEster15(mol, bid1, bid3, atm1, atm2, atm3, atm4) \/
             _checkAmideEster15(mol, bid3, bid1, atm4, atm3, atm2, atm1)
     THEN IF forceTransAmides
          THEN IF isH THEN [r |-> FixedRange(Cis14(q)), type |-> "CIS"]
               ELSE [r |-> FixedRange(Trans14(q)), type |-> "TRANS"]
          ELSE default14(q)
     ELSE default14(q)

\* the tail shared by both routines: if (setTheBound), widen a degenerate
\* range, _checkAndSetBounds, paths14.push_back; type "NONE" stands for
\* setTheBound = false
EmitChoice14(mol, st, bid1, bid2, bid3, aid1, aid4, c) ==
  IF c.type = "NONE" THEN st
  ELSE Emit14(mol, st, bid1, bid2, bid3, aid1, aid4, widen14(c.r), c.type)

_setChain14Bounds(mol, bid1, bid2, bid3, st, dmat, forceTransAmides) ==
  LET q == Path14(mol, st, bid1, bid2, bid3)
  IN IF ~st.ok THEN st
     ELSE IF ~Path14Valid(q) THEN Fail(st)
     ELSE IF ~(q.ba12 > 0 /\ q.ba23 > 0) THEN Fail(st)
     ELSE EmitChoice14(mol, st, bid1, bid2, bid3, q.aid1, q.aid4,
            IF mol.bonds[bid2].type = "DOUBLE"
            THEN double14(mol, q, bid1, bid2, bid3)
            ELSE IF mol.bonds[bid2].type = "SINGLE"
            THEN chainSingle14(mol, q, bid1, bid2, bid3, forceTransAmides)
            ELSE default14(q))

\* variant: the record of an sp2-sp2 path keeps the tag OTHER
_record14PathKeyOnly(mol, bid1, bid2, bid3, st) ==
  LET q == Path14(mol, st, bid1, bid2, bid3)
      nb == getNumBonds(mol)
  IN IF ~st.ok THEN st
     ELSE IF ~Path14Valid(q) THEN Fail(st)
     ELSE [st EXCEPT
             !.a.cisPaths =
               IF mol.atoms[q.atm2].hyb = "SP2" /\ mol.atoms[q.atm3].hyb = "SP2"
               THEN @ \cup {PackKey(bid1, bid2, bid3, nb),
                            PackKey(bid3, bid2, bid1, nb)}
               ELSE @,
             !.a.paths14 =
               Append(@, [bid1 |-> bid1, bid2 |-> bid2, bid3 |-> bid3,
                          type |-> "OTHER"])]

_record14Path(mol, bid1, bid2, bid3, st) ==
  LET q == Path14(mol, st, bid1, bid2, bid3)
      nb == getNumBonds(mol)
      type == IF mol.atoms[q.atm2].hyb = "SP2" /\ mol.atoms[q.atm3].hyb = "SP2"
              THEN "CIS" ELSE "OTHER"
  IN IF ~st.ok THEN st
     ELSE IF ~Path14Valid(q) THEN Fail(st)
     ELSE [st EXCEPT
             !.a.cisPaths =
               IF type = "CIS"
               THEN @ \cup {PackKey(bid1, bid2, bid3, nb),
                            PackKey(bid3, bid2, bid1, nb)}
               ELSE @,
             !.a.paths14 =
               Append(@, [bid1 |-> bid1, bid2 |-> bid2, bid3 |-> bid3,
                          type |-> type])]

_checkMacrocycleTwoInSameRingAmideEster14(mol, bid1, bid3, atm1, atm2, atm3, atm4) ==
  LET a1Num == mol.atoms[atm1].Z
      a2Num == mol.atoms[atm2].Z
      a3Num == mol.atoms[atm3].Z
      a4Num == mol.atoms[atm4].Z
  IN a1Num # 1 /\ a3Num = 6 /\ mol.bonds[bid3].type = "DOUBLE" /\
     (a4Num = 8 \/ a4Num = 7) /\ mol.bonds[bid1].type = "SINGLE" /\
     (a2Num = 8 \/ a2Num = 7)

_setMacrocycleTwoInSameRing14Bounds(mol, bid1, bid2, bid3, st, dmat) ==
  LET q == Path14(mol, st, bid1, bid2, bid3)
  IN IF ~st.ok THEN st
     ELSE IF ~Path14Valid(q) THEN Fail(st)
     ELSE IF tooClose14(mol, dmat, q.aid1, q.aid4) THEN st
     ELSE IF fusedFalse14(mol, q) THEN st
     ELSE IF ~(q.ba12 > 0 /\ q.ba23 > 0) THEN Fail(st)
     ELSE IF _checkMacrocycleTwoInSameRingAmideEster14(
               mol, bid1, bid3, q.aid1, q.atm2, q.atm3, q.aid4) \/
             _checkMacrocycleTwoInSameRingAmideEster14(
               mol, bid3, bid1, q.aid4, q.atm3, q.atm2, q.aid1)
     THEN Emit14(mol, st, bid1, bid2, bid3, q.aid1, q.aid4,
                 FixedRange(Cis14(q)), "CIS")
     ELSE Emit14(mol, st, bid1, bid2, bid3, q.aid1, q.aid4,
                 OtherRange(q, TRUE), "OTHER")

\* SINGLE middle bond in a macrocycle; FORCE_TRANS_AMIDES is not defined.
macrocycleSingle14(mol, q, bid1, bid2, bid3) ==
  LET atm1 == q.aid1
      atm2 == q.atm2
      atm3 == q.atm3
      atm4 == q.aid4
  IN IF mol.atoms[atm2].Z = 16 /\ mol.atoms[atm3].Z = 16 THEN disulfide14(q)
     ELSE IF _checkMacrocycleAllInSameRingAmideEster14(
               mol, atm1, atm2, atm3, atm4) \/
             _checkMacrocycleAllInSameRingAmideEster14(
               mol, atm4, atm3, atm2, atm1)
     THEN [r |-> FixedRange(Trans14(q) + 100), type |-> "TRANS"]
     ELSE IF _checkAmideEster15(mol, bid1, bid3, atm1, atm2, atm3, atm4) \/
             _checkAmideEster15(mol, bid3, bid1, atm4, atm3, atm2, atm1)
     THEN IF secondaryAmideH(mol, atm1, atm2)
          THEN [r |-> FixedRange(0), type |-> "NONE"]
          ELSE [r |-> FixedRange(Trans14(q)), type |-> "TRANS"]
     ELSE default14(q)

_setMacrocycleAllInSameRing14Bounds(mol, bid1, bid2, bid3, st, dmat) ==
  LET q == Path14(mol, st, bid1, bid2, bid3)
  IN IF ~st.ok THEN st
     ELSE IF ~Path14Valid(q) THEN Fail(st)
     ELSE IF ~(q.ba12 > 0 /\ q.ba23 > 0) THEN Fail(st)
     ELSE EmitChoice14(mol, st, bid1, bid2, bid3, q.aid1, q.aid4,
            IF mol.bonds[bid2].type = "DOUBLE"
            THEN double14(mol, q, bid1, bid2, bid3)
            ELSE IF mol.bonds[bid2].type = "SINGLE"
            THEN macrocycleSingle14(mol, q, bid1, bid2, bid3)
            ELSE default14(q))

\* the (bid1, bid2, bid3) triples of one bond ring, in walking order
ringTriples(bring) ==
  LET rSize == Len(bring)
  IN [i \in 1..rSize |->
        [bid1 |-> bring[IF i = 1 THEN rSize ELSE i - 1],
         bid2 |-> bring[i],
         bid3 |-> bring[(i % rSize) + 1],
         rSize |-> rSize]]

RECURSIVE allRingTriples(_)
allRingTriples(rings) ==
  IF rings = <<>> THEN <<>>
  ELSE (IF Len(Head(rings)) < 3 THEN <<>> ELSE ringTriples(Head(rings)))
       \o allRingTriples(Tail(rings))

PairKey64(b1, b2, nb) == (b1 * nb + b2) % ULongMod

Range(seq) == {seq[k] : k \in 1..Len(seq)}

ringBondPairs(mol) ==
  LET nb == getNumBonds(mol)
  IN UNION {{PairKey64(t.bid1, t.bid2, nb), PairKey64(t.bid2, t.bid1, nb)} :
            t \in Range(allRingTriples(mol.bondRings))}

donePaths14(mol) ==
  LET nb == getNumBonds(mol)
  IN UNION {{PackKey64(t.bid1, t.bid2, t.bid3, nb),
             PackKey64(t.bid3, t.bid2, t.bid1, nb)} :
            t \in Range(allRingTriples(mol.bondRings))}

bidIsMacrocycle(mol, useMacrocycle14config) ==
  {t.bid2 : t \in {x \in Range(allRingTriples(mol.bondRings)) :
                     x.rSize > 5 /\ useMacrocycle14config /\
                     x.rSize >= minMacrocycleRingSize}}

\* variant: the ring size is not compared with minMacrocycleRingSize
ringRoutine14AnySize(t, useMacrocycle14config) ==
  IF t.rSize > 5
  THEN IF useMacrocycle14config THEN "MacrocycleAllInSameRing14"
       ELSE "InRing14"
  ELSE "record14Path"

\* variant: rings of five bonds are treated like larger ones
ringRoutine14FromFive(t, useMacrocycle14config) ==
  IF t.rSize > 4
  THEN IF useMacrocycle14config /\ t.rSize >= minMacrocycleRingSize
       THEN "MacrocycleAllInSameRing14"
       ELSE "InRing14"
  ELSE "record14Path"

\* the routine the first loop hands a ring triple to
ringRoutine14(t, useMacrocycle14config) ==
  IF t.rSize > 5
  THEN IF useMacrocycle14config /\ t.rSize >= minMacrocycleRingSize
       THEN "MacrocycleAllInSameRing14"
       ELSE "InRing14"
  ELSE "record14Path"

\* the call of a dispatch routine, by name
call14(mol, st, t, dmat, forceTransAmides, name) ==
  CASE name = "MacrocycleAllInSameRing14" ->
         _setMacrocycleAllInSameRing14Bounds(mol, t.bid1, t.bid2, t.bid3, st,
                                             dmat)
    [] name = "InRing14" ->
         _setInRing14Bounds(mol, t.bid1, t.bid2, t.bid3, st, dmat, t.rSize)
    [] name = "record14Path" ->
         _record14Path(mol, t.bid1, t.bid2, t.bid3, st)
    [] name = "MacrocycleTwoInSameRing14" ->
         _setMacrocycleTwoInSameRing14Bounds(mol, t.bid1, t.bid2, t.bid3, st,
                                             dmat)
    [] name = "TwoInSameRing14" ->
         _setTwoInSameRing14Bounds(mol, t.bid1, t.bid2, t.bid3, st, dmat)
    [] name = "TwoInDiffRing14" ->
         _setTwoInDiffRing14Bounds(mol, t.bid1, t.bid2, t.bid3, st, dmat)
    [] name = "ShareRingBond14" ->
         _setShareRingBond14Bounds(mol, t.bid1, t.bid2, t.bid3, st, dmat)
    [] name = "Chain14" ->
         _setChain14Bounds(mol, t.bid1, t.bid2, t.bid3, st, dmat,
                           forceTransAmides)
    [] OTHER -> st

\* the observation of one dispatch call: the routine, its triple, and what
\* it left changed (after) in the state it was given (st)
observed14(st, after, name, t) ==
  IF name = "none" THEN after
  ELSE [after EXCEPT !.log =
          Append(@, [routine |-> name, bid1 |-> t.bid1, bid2 |-> t.bid2,
                     bid3 |-> t.bid3, rSize |-> t.rSize,
                     wrote |-> after.m # st.m,
                     recorded |-> after.a.paths14 # st.a.paths14,
                     keyed |-> after.a.cisPaths # st.a.cisPaths \/
                               after.a.transPaths # st.a.transPaths,
                     ok |-> after.ok])]

set14RingTriple(mol, st, t, dmat, useMacrocycle14config) ==
  observed14(st,
             call14(mol, st, t, dmat, FALSE,
                    ringRoutine14(t, useMacrocycle14config)),
             ringRoutine14(t, useMacrocycle14config), t)

\* the triples of the second loop: bonds in index order, then the bonds of
\* the begin atom, then the bonds of the end atom
RECURSIVE SeqFlatten(_)
SeqFlatten(ss) == IF ss = <<>> THEN <<>> ELSE Head(ss) \o SeqFlatten(Tail(ss))

chainTriplesOf(mol, bid2) ==
  LET b1s == SelectSeq(atomBonds(mol, mol.bonds[bid2].beg),
                       LAMBDA b : b # bid2)
      b3s == SelectSeq(atomBonds(mol, mol.bonds[bid2].end),
                       LAMBDA b : b # bid2)
  IN SeqFlatten([i \in 1..Len(b1s) |->
       [j \in 1..Len(b3s) |->
          [bid1 |-> b1s[i], bid2 |-> bid2, bid3 |-> b3s[j], rSize |-> 0]]])

chainTriples(mol) ==
  SeqFlatten([k \in 1..getNumBonds(mol) |-> chainTriplesOf(mol, k - 1)])

\* variant: the test for ring bonds of different rings comes before the test
\* for two bonds of the same ring
chainRoutine14DiffFirst(mol, t, useMacrocycle14config) ==
  LET nb == getNumBonds(mol)
      rbp == ringBondPairs(mol)
  IN IF PackKey64(t.bid1, t.bid2, t.bid3, nb) \in donePaths14(mol) \/
        PackKey64(t.bid3, t.bid2, t.bid1, nb) \in donePaths14(mol)
     THEN "none"
     ELSE IF (numBondRings(mol, t.bid1) > 0 /\ numBondRings(mol, t.bid2) > 0) \/
             (numBondRings(mol, t.bid2) > 0 /\ numBondRings(mol, t.bid3) > 0)
     THEN "TwoInDiffRing14"
     ELSE IF PairKey64(t.bid1, t.bid2, nb) \in rbp \/
             PairKey64(t.bid2, t.bid1, nb) \in rbp \/
             PairKey64(t.bid2, t.bid3, nb) \in rbp \/
             PairKey64(t.bid3, t.bid2, nb) \in rbp
     THEN IF useMacrocycle14config /\
             t.bid2 \in bidIsMacrocycle(mol, useMacrocycle14config)
          THEN "MacrocycleTwoInSameRing14"
          ELSE "TwoInSameRing14"
     ELSE IF numBondRings(mol, t.bid2) > 0
     THEN "ShareRingBond14"
     ELSE "Chain14"

\* the routine the second loop hands a triple to; "none" for a path the
\* first loop has dealt with
chainRoutine14(mol, t, useMacrocycle14config) ==
  LET nb == getNumBonds(mol)
      rbp == ringBondPairs(mol)
  IN IF PackKey64(t.bid1, t.bid2, t.bid3, nb) \in donePaths14(mol) \/
        PackKey64(t.bid3, t.bid2, t.bid1, nb) \in donePaths14(mol)
     THEN "none"
     ELSE IF PairKey64(t.bid1, t.bid2, nb) \in rbp \/
             PairKey64(t.bid2, t.bid1, nb) \in rbp \/
             PairKey64(t.bid2, t.bid3, nb) \in rbp \/
             PairKey64(t.bid3, t.bid2, nb) \in rbp
     THEN IF useMacrocycle14config /\
             t.bid2 \in bidIsMacrocycle(mol, useMacrocycle14config)
          THEN "MacrocycleTwoInSameRing14"
          ELSE "TwoInSameRing14"
     ELSE IF (numBondRings(mol, t.bid1) > 0 /\ numBondRings(mol, t.bid2) > 0) \/
             (numBondRings(mol, t.bid2) > 0 /\ numBondRings(mol, t.bid3) > 0)
     THEN "TwoInDiffRing14"
     ELSE IF numBondRings(mol, t.bid2) > 0
     THEN "ShareRingBond14"
     ELSE "Chain14"

set14ChainTriple(mol, st, t, dmat, useMacrocycle14config, forceTransAmides) ==
  observed14(st,
             call14(mol, st, t, dmat, forceTransAmides,
                    chainRoutine14(mol, t, useMacrocycle14config)),
             chainRoutine14(mol, t, useMacrocycle14config), t)

RECURSIVE set14RingLoop(_, _, _, _, _)
set14RingLoop(mol, st, ts, dmat, useMacrocycle14config) ==
  IF ts = <<>> \/ ~st.ok THEN st
  ELSE set14RingLoop(mol,
         set14RingTriple(mol, st, Head(ts), dmat, useMacrocycle14config),
         Tail(ts), dmat, useMacrocycle14config)

RECURSIVE set14ChainLoop(_, _, _, _, _, _)
set14ChainLoop(mol, st, ts, dmat, useMacrocycle14config, forceTransAmides) ==
  IF ts = <<>> \/ ~st.ok THEN st
  ELSE set14ChainLoop(mol,
         set14ChainTriple(mol, st, Head(ts), dmat, useMacrocycle14config,
                          forceTransAmides),
         Tail(ts), dmat, useMacrocycle14config, forceTransAmides)

tooManyBonds(mol) == getNumBonds(mol) >= MAX_NUM_BONDS

set14Bounds(mol, st, dmat, useMacrocycle14config, forceTransAmides) ==
  IF ~st.ok THEN st
  ELSE IF tooManyBonds(mol) THEN Fail(st)
  ELSE set14ChainLoop(mol,
         set14RingLoop(mol, st, allRingTriples(mol.bondRings), dmat,
                       useMacrocycle14config),
         chainTriples(mol), dmat, useMacrocycle14config, forceTransAmides)

---------------------------------------------------------------------------
(* Pass 4: set15Bounds                                                     *)

\* acos on the cosine table: the angle in 0..1800 whose cosine is nearest
RECURSIVE AcosBisect(_, _, _)
AcosBisect(c, lo, hi) ==
  IF hi - lo <= 1
  THEN IF Abs(CosQ(lo) - c) <= Abs(CosQ(hi) - c) THEN lo ELSE hi
  ELSE LET mid == (lo + hi) \div 2
       IN IF CosQ(mid) >= c THEN AcosBisect(c, mid, hi)
          ELSE AcosBisect(c, lo, mid)

AcosQ(c) == AcosBisect(c, 0, 1800)

\* ang143 of the _compute15Dists* family; sgn is +1 for the trans and -1
\* for the cis arrangement of atoms 1..4
\* cval = num / d14, then clamped to [-1, 1]; a division of 0 by 0 is NaN
cval15(num, d14) ==
  IF d14 = 0
  THEN (IF num > 0 THEN CosScale ELSE IF num < 0 THEN -CosScale ELSE NaN)
  ELSE Max(-CosScale,
           Min(CosScale,
               IF num >= 0 THEN (num * CosScale) \div d14
               ELSE -(((-num) * CosScale) \div d14)))

\* acos(cval)
acos15(cval) == IF cval = NaN THEN NaN ELSE AcosQ(cval)

ang143Of(d1, d2, d3, ang12, ang23, d14, sgn) ==
  acos15(cval15(d3 - MulQ(d2, CosQ(ang23)) +
                  MulQ(d1, CosQ(IF sgn > 0 THEN ang12 - ang23
                                ELSE ang12 + ang23)),
                d14))

\* ang145 = ang34 +/- ang143; compute13Dist(d14, d4, ang145)
dist15(d14, d4, ang34, sgn45, ang143) ==
  IF ang143 = NaN THEN NaN
  ELSE compute13Dist(d14, d4, ang34 + sgn45 * ang143)

\* the common form of the four routines, d14 being the 1-4 distance and
\* sgn14, sgn45 the signs (+1 trans, -1 cis) of the two torsions
compute15(d1, d2, d3, d4, ang12, ang23, ang34, d14, sgn14, sgn45) ==
  dist15(d14, d4, ang34, sgn45,
         ang143Of(d1, d2, d3, ang12, ang23, d14, sgn14))

_compute15DistsCisCis(d1, d2, d3, d4, ang12, ang23, ang34) ==
  compute15(d1, d2, d3, d4, ang12, ang23, ang34,
            compute14DistCis(d1, d2, d3, ang12, ang23), -1, -1)

_compute15DistsCisTrans(d1, d2, d3, d4, ang12, ang23, ang34) ==
  compute15(d1, d2, d3, d4, ang12, ang23, ang34,
            compute14DistCis(d1, d2, d3, ang12, ang23), -1, 1)

_compute15DistsTransTrans(d1, d2, d3, d4, ang12, ang23, ang34) ==
  compute15(d1, d2, d3, d4, ang12, ang23, ang34,
            compute14DistTrans(d1, d2, d3, ang12, ang23), 1, 1)

_compute15DistsTransCis(d1, d2, d3, d4, ang12, ang23, ang34) ==
  compute15(d1, d2, d3, d4, ang12, ang23, ang34,
            compute14DistTrans(d1, d2, d3, ang12, ang23), 1, -1)

\* variant: for a path tagged OTHER the default is the bracket of the cis
\* sub-path
range15CisDefault(mol, st, type, pathId, d1, d2, d3, d4, ang12, ang23, ang34, aid1, aid5) ==
  LET isCis == pathId \in st.a.cisPaths
      isTrans == pathId \in st.a.transPaths
      cc == _compute15DistsCisCis(d1, d2, d3, d4, ang12, ang23, ang34)
      ct == _compute15DistsCisTrans(d1, d2, d3, d4, ang12, ang23, ang34)
      tc == _compute15DistsTransCis(d1, d2, d3, d4, ang12, ang23, ang34)
      tt == _compute15DistsTransTrans(d1, d2, d3, d4, ang12, ang23, ang34)
      rcc == _compute15DistsCisCis(d4, d3, d2, d1, ang34, ang23, ang12)
      rct == _compute15DistsCisTrans(d4, d3, d2, d1, ang34, ang23, ang12)
      rtc == _compute15DistsTransCis(d4, d3, d2, d1, ang34, ang23, ang12)
      rtt == _compute15DistsTransTrans(d4, d3, d2, d1, ang34, ang23, ang12)
      around(d) == IF d = NaN THEN [dl |-> NaN, du |-> NaN]
                   ELSE [dl |-> d - DIST15_TOL, du |-> d + DIST15_TOL]
      between(a, b) == IF a = NaN \/ b = NaN THEN [dl |-> NaN, du |-> NaN]
                       ELSE [dl |-> a - DIST15_TOL, du |-> b + DIST15_TOL]
  IN IF type = "CIS"
     THEN IF isCis THEN around(cc)
          ELSE IF isTrans THEN around(ct)
          ELSE between(cc, ct)
     ELSE IF type = "TRANS"
     THEN IF isCis THEN around(tc)
          ELSE IF isTrans THEN around(tt)
          ELSE between(tc, tt)
     ELSE IF isCis THEN between(rcc, rct)
          ELSE IF isTrans THEN between(rtc, rtt)
          ELSE between(rcc, rct)

\* dl, du for one 1-5 contact; du = -1 stands for "not computed"
range15(mol, st, type, pathId, d1, d2, d3, d4, ang12, ang23, ang34, aid1, aid5) ==
  LET isCis == pathId \in st.a.cisPaths
      isTrans == pathId \in st.a.transPaths
      cc == _compute15DistsCisCis(d1, d2, d3, d4, ang12, ang23, ang34)
      ct == _compute15DistsCisTrans(d1, d2, d3, d4, ang12, ang23, ang34)
      tc == _compute15DistsTransCis(d1, d2, d3, d4, ang12, ang23, ang34)
      tt == _compute15DistsTransTrans(d1, d2, d3, d4, ang12, ang23, ang34)
      rcc == _compute15DistsCisCis(d4, d3, d2, d1, ang34, ang23, ang12)
      rct == _compute15DistsCisTrans(d4, d3, d2, d1, ang34, ang23, ang12)
      rtc == _compute15DistsTransCis(d4, d3, d2, d1, ang34, ang23, ang12)
      rtt == _compute15DistsTransTrans(d4, d3, d2, d1, ang34, ang23, ang12)
      around(d) == IF d = NaN THEN [dl |-> NaN, du |-> NaN]
                   ELSE [dl |-> d - DIST15_TOL, du |-> d + DIST15_TOL]
      between(a, b) == IF a = NaN \/ b = NaN THEN [dl |-> NaN, du |-> NaN]
                       ELSE [dl |-> a - DIST15_TOL, du |-> b + DIST15_TOL]
  IN IF type = "CIS"
     THEN IF isCis THEN around(cc)
          ELSE IF isTrans THEN around(ct)
          ELSE between(cc, ct)
     ELSE IF type = "TRANS"
     THEN IF isCis THEN around(tc)
          ELSE IF isTrans THEN around(tt)
          ELSE between(tc, tt)
     ELSE IF isCis THEN between(rcc, rct)
          ELSE IF isTrans THEN between(rtc, rtt)
          ELSE [dl |-> VDW_SCALE_15(getRvdw(mol.atoms[aid1].Z) +
                                    getRvdw(mol.atoms[aid5].Z)),
                du |-> -1]

\* variant: the comparison is the other way round
lowerUnset15Inverted(lb) == lb >= DIST12_DELTA

\* mmat->getLowerBound(aid1, aid5) < DIST12_DELTA
lowerUnset15(lb) == lb < DIST12_DELTA

\* variant: a pair whose set15Atoms flag is set is not written again
writes15Unflagged(mol, st, dmat, aid1, aid4, bid3, i) ==
  /\ st.a.bondAdj[Pair(bid3, i)] = aid4
  /\ LET aid5 == getOtherAtomIdx(mol, i, aid4)
         na == getNumAtoms(mol)
     IN /\ ~(dmat[Max(aid1, aid5) * na + Min(aid1, aid5)] < 4)
        /\ aid1 # aid5
        /\ lowerUnset15(getLowerBound(st.m, aid1, aid5))
        /\ (aid1 * na + aid5) \notin st.a.set15Atoms
        /\ (aid5 * na + aid1) \notin st.a.set15Atoms

\* the preflight of one candidate fourth bond i
writes15(mol, st, dmat, aid1, aid4, bid3, i) ==
  /\ st.a.bondAdj[Pair(bid3, i)] = aid4
  /\ LET aid5 == getOtherAtomIdx(mol, i, aid4)
         na == getNumAtoms(mol)
     IN /\ ~(dmat[Max(aid1, aid5) * na + Min(aid1, aid5)] < 4)
        /\ aid1 # aid5
        /\ \/ lowerUnset15(getLowerBound(st.m, aid1, aid5))
           \/ (aid1 * na + aid5) \in st.a.set15Atoms
           \/ (aid5 * na + aid1) \in st.a.set15Atoms

\* accumData.set15Atoms[aid1 * na + aid5] = 1, and the mirrored index
mark15(mol, s2, aid1, aid5) ==
  IF ~s2.ok THEN s2
  ELSE [s2 EXCEPT !.a.set15Atoms =
          @ \cup {aid1 * getNumAtoms(mol) + aid5,
                  aid5 * getNumAtoms(mol) + aid1}]

\* if (du < 0.0) du = MAX_UPPER; _checkAndSetBounds; the two flags
write15(mol, st, aid1, aid5, r) ==
  mark15(mol,
         IF r.dl = NaN THEN Fail(st)
         ELSE CheckAndSet(st, aid1, aid5, r.dl,
                          IF r.du < 0 THEN MAX_UPPER ELSE r.du),
         aid1, aid5)

\* the observation of one candidate (aid1, aid5): what the preflight saw in
\* the state it was given (st) and what the step left changed (after)
observed15(mol, st, after, dmat, type, bid2, d1, d2, d3, ang12, ang23, aid1, aid5, bid3, i, called) ==
  [after EXCEPT !.log15 =
     Append(@, [aid1 |-> aid1, aid5 |-> aid5, bid3 |-> bid3, bid4 |-> i,
                type |-> type, bid2 |-> bid2,
                d1 |-> d1, d2 |-> d2, d3 |-> d3, d4 |-> st.a.bondLengths[i],
                ang12 |-> ang12, ang23 |-> ang23,
                ang34 |-> st.a.bondAngles[Pair(bid3, i)],
                inCis |-> PackKey(bid2, bid3, i, getNumBonds(mol)) \in
                            st.a.cisPaths,
                inTrans |-> PackKey(bid2, bid3, i, getNumBonds(mol)) \in
                              st.a.transPaths,
                dl |-> IF called
                       THEN range15(mol, st, type,
                                    PackKey(bid2, bid3, i, getNumBonds(mol)),
                                    d1, d2, d3, st.a.bondLengths[i], ang12,
                                    ang23, st.a.bondAngles[Pair(bid3, i)],
                                    aid1, aid5).dl
                       ELSE 0,
                du |-> IF called
                       THEN LET du == range15(mol, st, type,
                                      PackKey(bid2, bid3, i, getNumBonds(mol)),
                                      d1, d2, d3, st.a.bondLengths[i], ang12,
                                      ang23, st.a.bondAngles[Pair(bid3, i)],
                                      aid1, aid5).du
                            IN IF du = NaN THEN NaN
                               ELSE IF du < 0 THEN MAX_UPPER ELSE du
                       ELSE 0,
                upper |-> IF aid1 = aid5 THEN 0
                          ELSE getUpperBound(st.m, aid1, aid5),
                lowerAfter |-> IF aid1 = aid5 THEN 0
                               ELSE getLowerBound(after.m, aid1, aid5),
                upperAfter |-> IF aid1 = aid5 THEN 0
                               ELSE getUpperBound(after.m, aid1, aid5),
                dist |-> dmat[Max(aid1, aid5) * getNumAtoms(mol) +
                              Min(aid1, aid5)],
                lower |-> IF aid1 = aid5 THEN 0
                          ELSE getLowerBound(st.m, aid1, aid5),
                flagged |-> (aid1 * getNumAtoms(mol) + aid5) \in
                              st.a.set15Atoms \/
                            (aid5 * getNumAtoms(mol) + aid1) \in
                              st.a.set15Atoms,
                called |-> called,
                wrote |-> after.m # st.m,
                marked |-> after.a.set15Atoms # st.a.set15Atoms,
                ok |-> after.ok])]

set15Candidate(mol, st, dmat, type, bid2, bid3, aid1, aid4, d1, d2, d3, ang12, ang23, i) ==
  IF ~writes15(mol, st, dmat, aid1, aid4, bid3, i) THEN st
  ELSE write15(mol, st, aid1, getOtherAtomIdx(mol, i, aid4),
               range15(mol, st, type,
                       PackKey(bid2, bid3, i, getNumBonds(mol)), d1, d2, d3,
                       st.a.bondLengths[i], ang12, ang23,
                       st.a.bondAngles[Pair(bid3, i)], aid1,
                       getOtherAtomIdx(mol, i, aid4)))

set15Step(mol, st, dmat, type, bid2, bid3, aid1, aid4, d1, d2, d3, ang12, ang23, i) ==
  IF st.a.bondAdj[Pair(bid3, i)] # aid4 THEN st
  ELSE observed15(mol, st,
         set15Candidate(mol, st, dmat, type, bid2, bid3, aid1, aid4, d1, d2,
                        d3, ang12, ang23, i),
         dmat, type, bid2, d1, d2, d3, ang12, ang23, aid1,
         getOtherAtomIdx(mol, i, aid4), bid3, i,
         writes15(mol, st, dmat, aid1, aid4, bid3, i))

RECURSIVE set15BondLoop(_, _, _, _, _, _, _, _, _, _, _, _, _, _)
set15BondLoop(mol, st, dmat, type, bid2, bid3, aid1, aid4, d1, d2, d3, ang12, ang23, i) ==
  IF i >= getNumBonds(mol) \/ ~st.ok THEN st
  ELSE set15BondLoop(mol,
         set15Step(mol, st, dmat, type, bid2, bid3, aid1, aid4, d1, d2, d3,
                   ang12, ang23, i),
         dmat, type, bid2, bid3, aid1, aid4, d1, d2, d3, ang12, ang23, i + 1)

_set15BoundsHelper(mol, bid1, bid2, bid3, type, st, dmat) ==
  LET q == Path14(mol, st, bid1, bid2, bid3)
  IN IF ~st.ok THEN st
     ELSE IF ~Path14Valid(q) THEN Fail(st)
     ELSE set15BondLoop(mol, st, dmat, type, bid2, bid3, q.aid1, q.aid4,
                        q.bl1, q.bl2, q.bl3, q.ba12, q.ba23, 0)

RECURSIVE set15PathLoop(_, _, _, _)
set15PathLoop(mol, st, dmat, k) ==
  IF k > Len(st.a.paths14) \/ ~st.ok THEN st
  ELSE LET p == st.a.paths14[k]
       IN set15PathLoop(mol,
            _set15BoundsHelper(mol, p.bid3, p.bid2, p.bid1, p.type,
              _set15BoundsHelper(mol, p.bid1, p.bid2, p.bid3, p.type, st,
                                 dmat),
              dmat),
            dmat, k + 1)

set15Bounds(mol, st, dmat) == set15PathLoop(mol, st, dmat, 1)

---------------------------------------------------------------------------
(* setTopolBounds as a state machine                                       *)

Options ==
  [set15bounds : BOOLEAN, scaleVDW : BOOLEAN,
   useMacrocycle14config : BOOLEAN, forceTransAmides : BOOLEAN,
   withBondsAngles : BOOLEAN]

curMol == Mol(molId)
curDist == getDistanceMat(curMol)

\* what a caller may have left in the output vectors
StaleBonds == <<<<7, 8>>>>
StaleAngles == <<<<7, 8, 9, 1>>>>

NoCall == [i |-> 0, j |-> 0, lb |-> 0, ub |-> 0, clb |-> 0, cub |-> 0,
           ok |-> TRUE, before |-> <<>>]

Init ==
  /\ molId \in 1..NumMols
  /\ opts \in Options
  /\ pc = "idle"
  /\ \E defaultMin \in {0, DIST12_DELTA} :
       mmat = initBoundsMat(getNumAtoms(Mol(molId)), defaultMin, MAX_UPPER)
  /\ accumData = ComputedData(0, 0)
  /\ bonds = StaleBonds
  /\ angles = StaleAngles
  /\ err = "none"
  /\ hist = <<>>
  /\ ncalls = 0
  /\ entryMat = mmat
  /\ preVdw = mmat
  /\ call = NoCall
  /\ calls14 = <<>>
  /\ calls15 = <<>>
  /\ calls13 = <<>>
  /\ writers = {}

\* The statements of setTopolBounds before the first pass.
Enter ==
  /\ pc = "idle"
  /\ ncalls < MaxCalls
  /\ entryMat' = mmat
  /\ hist' = <<>>
  /\ bonds' = IF opts.withBondsAngles THEN <<>> ELSE bonds
  /\ angles' = IF opts.withBondsAngles THEN <<>> ELSE angles
  /\ IF getNumAtoms(curMol) = 0
     THEN /\ err' = "molecule has no atoms"
          /\ pc' = "failed"
          /\ UNCHANGED accumData
     ELSE IF ~opts.withBondsAngles /\ tooManyBonds(curMol)
     THEN /\ err' = "Too many bonds"
          /\ pc' = "failed"
          /\ UNCHANGED accumData
     ELSE /\ err' = "none"
          /\ pc' = "set12"
          /\ accumData' = ComputedData(getNumAtoms(curMol), getNumBonds(curMol))
  /\ calls14' = <<>>
  /\ calls15' = <<>>
  /\ calls13' = <<>>
  /\ writers' = {}
  /\ UNCHANGED <<molId, opts, mmat, ncalls, preVdw, call>>

\* one pass has run from `here`; st is what it left behind
Ran(here, st, next, failure) ==
  /\ mmat' = st.m
  /\ accumData' = st.a
  /\ hist' = Append(hist, here)
  /\ pc' = IF st.ok THEN next ELSE "failed"
  /\ err' = IF st.ok THEN "none" ELSE failure
  /\ calls14' = calls14 \o st.log
  /\ calls15' = calls15 \o st.log15
  /\ calls13' = calls13 \o st.log13
  /\ writers' = writers \cup {<<here, v>> : v \in st.via}
  /\ UNCHANGED <<molId, opts, bonds, angles, ncalls, entryMat, call>>

Set12 ==
  /\ pc = "set12"
  /\ Ran("set12", set12Bounds(curMol, PassState(mmat, accumData)), "set13",
         "Invariant Violation")
  /\ UNCHANGED preVdw

Set13 ==
  /\ pc = "set13"
  /\ Ran("set13", set13Bounds(curMol, PassState(mmat, accumData)), "set14",
         "Invariant Violation")
  /\ UNCHANGED preVdw

\* variant: set15Bounds is called whatever the option says
afterSet14Always(o) == "set15"

afterSet14(o) == IF o.set15bounds THEN "set15" ELSE "vdw"

Set14 ==
  /\ pc = "set14"
  /\ Ran("set14",
         set14Bounds(curMol, PassState(mmat, accumData), curDist,
                     opts.useMacrocycle14config, opts.forceTransAmides),
         afterSet14(opts),
         IF tooManyBonds(curMol) THEN "Too many bonds" ELSE "Invariant Violation")
  /\ UNCHANGED preVdw

Set15 ==
  /\ pc = "set15"
  /\ Ran("set15", set15Bounds(curMol, PassState(mmat, accumData), curDist),
         "vdw", "Invariant Violation")
  /\ UNCHANGED preVdw

Vdw ==
  /\ pc = "vdw"
  /\ preVdw' = mmat
  /\ Ran("vdw",
         [PassState(setLowerBoundVDW(curMol, mmat, opts.scaleVDW, curDist),
                    accumData) EXCEPT !.via = vdwWriters(mmat)],
         IF opts.withBondsAngles THEN "collect" ELSE "done", "none")

Collect ==
  /\ pc = "collect"
  /\ LET out == collectBondsAndAngles(curMol, bonds, angles)
     IN /\ bonds' = out.bonds
        /\ angles' = out.angles
  /\ hist' = Append(hist, "collect")
  /\ pc' = "done"
  /\ UNCHANGED <<molId, opts, mmat, accumData, err, ncalls, entryMat, preVdw,
                 call, calls13, calls14, calls15,
                 writers>>

\* setTopolBounds has returned; the caller may call it again on this matrix
Return ==
  /\ pc = "done"
  /\ ncalls + 1 < MaxCalls
  /\ ncalls' = ncalls + 1
  /\ pc' = "idle"
  /\ UNCHANGED <<molId, opts, mmat, accumData, bonds, angles, err, hist,
                 entryMat, preVdw, call, calls13, calls14, calls15,
                 writers>>

Next ==
  \/ Enter
  \/ Set12
  \/ Set13
  \/ Set14
  \/ Set15
  \/ Vdw
  \/ Collect
  \/ Return

Spec == Init /\ [][Next]_vars

---------------------------------------------------------------------------
(* _checkAndSetBounds called directly, in any order, on a matrix of three  *)
(* points that initBoundsMat has filled.                                   *)

LowerArgs == {5, DIST12_DELTA, 1500, 2000}
UpperArgs == {1500, 2500, 3000, MAX_UPPER}
DirectPoints == 0..2

InitDirect ==
  /\ molId = 1
  /\ opts = [set15bounds |-> FALSE, scaleVDW |-> FALSE,
             useMacrocycle14config |-> FALSE, forceTransAmides |-> FALSE,
             withBondsAngles |-> FALSE]
  /\ pc = "direct"
  /\ \E defaultMin \in {0, DIST12_DELTA} :
       mmat = initBoundsMat(Cardinality(DirectPoints), defaultMin, MAX_UPPER)
  /\ accumData = ComputedData(0, 0)
  /\ bonds = StaleBonds
  /\ angles = StaleAngles
  /\ err = "none"
  /\ hist = <<>>
  /\ ncalls = 0
  /\ entryMat = mmat
  /\ preVdw = mmat
  /\ call = NoCall
  /\ calls14 = <<>>
  /\ calls15 = <<>>
  /\ calls13 = <<>>
  /\ writers = {}

DirectCheckAndSet ==
  /\ pc = "direct"
  /\ \E p \in DOMAIN mmat.lb, lb \in LowerArgs, ub \in UpperArgs :
       LET i == p[1]
           j == p[2]
           r == _checkAndSetBounds(i, j, lb, ub, mmat)
       IN /\ mmat' = r.m
          /\ call' = [i |-> i, j |-> j, lb |-> lb, ub |-> ub,
                      clb |-> getLowerBound(mmat, i, j),
                      cub |-> getUpperBound(mmat, i, j),
                      ok |-> r.ok, before |-> mmat]
  /\ UNCHANGED <<molId, opts, pc, accumData, bonds, angles, err, hist, ncalls,
                 entryMat, preVdw, calls13, calls14, calls15,
                 writers>>

NextDirect == DirectCheckAndSet

SpecDirect == InitDirect /\ [][NextDirect]_vars

---------------------------------------------------------------------------
(* _getAtomStereo called directly on the double bond C1=C2 of a molecule   *)
(* whose atoms 0 and 4 are neighbours of C1 and 3 and 5 neighbours of C2.  *)

StereoKinds ==
  {"NONE", "STEREOANY", "STEREOZ", "STEREOE", "STEREOCIS", "STEREOTRANS"}
StereoNeighbours == {0, 3, 4, 5}
StereoAtomVectors ==
  {<<>>} \cup {<<a>> : a \in StereoNeighbours} \cup
  {p \in StereoNeighbours \X StereoNeighbours : p[1] # p[2]}

StereoCall(s, sa, aid1, aid4) ==
  [bnd |-> [Bond(1, 2, "DOUBLE", 1329) EXCEPT !.stereo = s,
                                              !.stereoAtoms = sa],
   aid1 |-> aid1, aid4 |-> aid4, stype |-> "pending"]

StereoCalls ==
  {StereoCall(s, sa, aid1, aid4) :
     s \in StereoKinds, sa \in StereoAtomVectors,
     aid1 \in StereoNeighbours, aid4 \in StereoNeighbours}

InitStereo ==
  /\ molId = 1
  /\ opts = [set15bounds |-> FALSE, scaleVDW |-> FALSE,
             useMacrocycle14config |-> FALSE, forceTransAmides |-> FALSE,
             withBondsAngles |-> FALSE]
  /\ pc = "stereo"
  /\ mmat = initBoundsMat(1, 0, MAX_UPPER)
  /\ accumData = ComputedData(0, 0)
  /\ bonds = StaleBonds
  /\ angles = StaleAngles
  /\ err = "none"
  /\ hist = <<>>
  /\ ncalls = 0
  /\ entryMat = mmat
  /\ preVdw = mmat
  /\ call \in {c \in StereoCalls : c.aid1 # c.aid4}
  /\ calls14 = <<>>
  /\ calls15 = <<>>
  /\ calls13 = <<>>
  /\ writers = {}

GetAtomStereo ==
  /\ pc = "stereo"
  /\ call' = [call EXCEPT
                !.stype = _getAtomStereo(call.bnd, call.aid1, call.aid4)]
  /\ pc' = "stereoReturned"
  /\ UNCHANGED <<molId, opts, mmat, accumData, bonds, angles, err, hist,
                 ncalls, entryMat, preVdw, calls13, calls14, calls15, writers>>

\* the same bond looked at from the other end of the path
ReversePath ==
  /\ pc = "stereoReturned"
  /\ call' = [call EXCEPT !.aid1 = call.aid4, !.aid4 = call.aid1,
                          !.stype = "pending"]
  /\ pc' = "stereo"
  /\ UNCHANGED <<molId, opts, mmat, accumData, bonds, angles, err, hist,
                 ncalls, entryMat, preVdw, calls13, calls14, calls15, writers>>

NextStereo == GetAtomStereo \/ ReversePath

SpecStereo == InitStereo /\ [][NextStereo]_vars

---------------------------------------------------------------------------
(* The packing of a bond triple into a key, called directly for a molecule *)
(* of nb bonds that passes the size check of set14Bounds.                  *)

\* the bond counts the size check accepts
AcceptedNumBonds == {n \in 1..MAX_NUM_BONDS : ~(n >= MAX_NUM_BONDS)}

\* the triples of bond indices below nb whose first bond is the first or the
\* last bond of the molecule
KeyTriples(nb) == {0, nb - 1} \X (0..(nb - 1)) \X (0..(nb - 1))

InitKeys ==
  /\ molId = 1
  /\ opts = [set15bounds |-> FALSE, scaleVDW |-> FALSE,
             useMacrocycle14config |-> FALSE, forceTransAmides |-> FALSE,
             withBondsAngles |-> FALSE]
  /\ pc = "keys"
  /\ mmat = initBoundsMat(1, 0, MAX_UPPER)
  /\ accumData = ComputedData(0, 0)
  /\ bonds = StaleBonds
  /\ angles = StaleAngles
  /\ err = "none"
  /\ hist = <<>>
  /\ ncalls = 0
  /\ entryMat = mmat
  /\ preVdw = mmat
  /\ \E nb \in AcceptedNumBonds :
       \E t \in KeyTriples(nb) :
         call = [nb |-> nb, bid1 |-> t[1], bid2 |-> t[2], bid3 |-> t[3],
                 pathId |-> -1, id1 |-> -1]
  /\ calls14 = <<>>
  /\ calls15 = <<>>
  /\ calls13 = <<>>
  /\ writers = {}

\* the key of cisPaths / transPaths (pathId) and the key of donePaths (id1)
PackPath ==
  /\ pc = "keys"
  /\ call' = [call EXCEPT
                !.pathId = PackKey(call.bid1, call.bid2, call.bid3, call.nb),
                !.id1 = PackKey64(call.bid1, call.bid2, call.bid3, call.nb)]
  /\ pc' = "keysPacked"
  /\ UNCHANGED <<molId, opts, mmat, accumData, bonds, angles, err, hist,
                 ncalls, entryMat, preVdw, calls13, calls14, calls15, writers>>

NextKeys == PackPath

SpecKeys == InitKeys /\ [][NextKeys]_vars

---------------------------------------------------------------------------
(* MorganEnvGenerator::getEnvironments: the atom environments of a         *)
(* molecule, layer by layer.  An environment is kept with the set of bonds *)
(* of its neighbourhood, which the code holds in a bitset per atom.        *)

\* the largest radius asked for
MaxRadius == 3

\* a ^ b on unsigned integers
RECURSIVE BitXor(_, _)
BitXor(a, b) ==
  IF a = 0 THEN b
  ELSE IF b = 0 THEN a
  ELSE (((a % 2) + (b % 2)) % 2) + 2 * BitXor(a \div 2, b \div 2)

\* 0x9e3779b9, as far as it fits the width of the seed
goldenRatio == ((40503 % UIntMod) * (65536 % UIntMod) + 31161) % UIntMod

\* gboost::hash_combine on a std::uint32_t seed:
\* seed ^= v + 0x9e3779b9 + (seed << 6) + (seed >> 2)
hash_combine(seed, v) ==
  BitXor(seed,
         (v + goldenRatio + (seed * 64) + (seed \div 4)) % UIntMod)

\* hash_combine with a std::pair: the pair is hashed from seed 0 first
hash_combine_pair(seed, pr) ==
  hash_combine(seed, hash_combine(hash_combine(0, pr[1]), pr[2]))

\* lexicographic order of tuples of numbers of the same length
RECURSIVE tupleLess(_, _)
tupleLess(x, y) ==
  IF x = <<>> THEN FALSE
  ELSE IF Head(x) # Head(y) THEN Head(x) < Head(y)
  ELSE tupleLess(Tail(x), Tail(y))

\* std::sort of a sequence whose elements carry their sort key in field key
RECURSIVE insertByKey(_, _)
insertByKey(x, sorted) ==
  IF sorted = <<>> THEN <<x>>
  ELSE IF tupleLess(x.key, Head(sorted).key) THEN <<x>> \o sorted
  ELSE <<Head(sorted)>> \o insertByKey(x, Tail(sorted))

RECURSIVE sortByKey(_)
sortByKey(seq) ==
  IF seq = <<>> THEN <<>> ELSE insertByKey(Head(seq), sortByKey(Tail(seq)))

\* the value boost::dynamic_bitset is compared by: bit b weighs 2^b
RECURSIVE bitsValue(_)
bitsValue(S) ==
  IF S = {} THEN 0
  ELSE LET b == CHOOSE x \in S : TRUE IN 2 ^ b + bitsValue(S \ {b})

\* Bond::BondType as the default bond invariant
bondTypeCode(t) ==
  IF t = "SINGLE" THEN 1 ELSE IF t = "DOUBLE" THEN 2
  ELSE IF t = "TRIPLE" THEN 3 ELSE 12

\* atomOrder: the atoms with a zero invariant last when
\* df_onlyNonzeroInvariants is set, the atoms in index order otherwise
atomOrder(mol, g) ==
  IF g.onlyNonzeroInvariants
  THEN LET ordering == [k \in 1..getNumAtoms(mol) |->
                          [key |-> <<IF g.currentInvariants[k - 1] = 0
                                     THEN 1 ELSE 0, k - 1>>]]
       IN [k \in 1..getNumAtoms(mol) |-> sortByKey(ordering)[k].key[2]]
  ELSE [k \in 1..getNumAtoms(mol) |-> k - 1]

\* the round 0 invariants go to the result
morganRound0(mol, g) ==
  [g EXCEPT !.result =
     SelectSeq([k \in 1..getNumAtoms(mol) |->
                  [code |-> g.currentInvariants[k - 1], atom |-> k - 1,
                   layer |-> 0, nbh |-> {}]],
               LAMBDA e : e.atom \in g.includeAtoms /\
                          (~g.onlyNonzeroInvariants \/ e.code # 0))]

\* neighborhoodInvariants of an atom, sorted
neighborhoodInvariants(mol, g, atomIdx) ==
  LET bs == atomBonds(mol, atomIdx)
  IN sortByKey([k \in 1..Len(bs) |->
                  [key |-> <<bondTypeCode(mol.bonds[bs[k]].type),
                             g.currentInvariants[
                               getOtherAtomIdx(mol, bs[k], atomIdx)]>>]])

\* looksChiral after the walk over the sorted neighbour list
looksChiral(g, atomIdx, nis) ==
  /\ g.cip[atomIdx] # "none"
  /\ \/ ~(g.includeChirality /\ atomIdx \notin g.chiralAtoms)
     \/ \A k \in 1..Len(nis) :
          /\ nis[k].key[1] = bondTypeCode("SINGLE")
          /\ k > 1 => nis[k].key[2] # nis[k - 1].key[2]

RECURSIVE combineAll(_, _)
combineAll(invar, nis) ==
  IF nis = <<>> THEN invar
  ELSE combineAll(hash_combine_pair(invar, Head(nis).key), Tail(nis))

\* the new invariant of an atom in this layer
layerInvariant(mol, g, atomIdx) ==
  LET nis == neighborhoodInvariants(mol, g, atomIdx)
      invar == combineAll(hash_combine(g.layer, g.currentInvariants[atomIdx]),
                          nis)
  IN IF g.includeChirality /\ looksChiral(g, atomIdx, nis)
     THEN hash_combine(invar, IF g.cip[atomIdx] = "R" THEN 3
                              ELSE IF g.cip[atomIdx] = "S" THEN 2 ELSE 1)
     ELSE invar

\* roundAtomNeighborhoods[atomIdx] after the loop over the bonds of the atom
grownNeighborhood(mol, g, atomIdx) ==
  g.roundAtomNeighborhoods[atomIdx] \cup
  UNION {{b} \cup g.atomNeighborhoods[getOtherAtomIdx(mol, b, atomIdx)] :
         b \in Range(atomBonds(mol, atomIdx))}

\* one atom of the first loop of a layer
morganGatherAtom(mol, g, atomIdx) ==
  IF atomIdx \in g.deadAtoms THEN g
  ELSE IF getDegree(mol, atomIdx) = 0
  THEN [g EXCEPT !.deadAtoms = @ \cup {atomIdx}]
  ELSE [g EXCEPT
          !.roundAtomNeighborhoods[atomIdx] =
             grownNeighborhood(mol, g, atomIdx),
          !.chiralAtoms =
             IF g.includeChirality /\
                looksChiral(g, atomIdx,
                            neighborhoodInvariants(mol, g, atomIdx))
             THEN @ \cup {atomIdx} ELSE @,
          !.nextLayerInvariants[atomIdx] = layerInvariant(mol, g, atomIdx),
          !.allNeighborhoodsThisRound =
             Append(@, [key |-> <<bitsValue(grownNeighborhood(mol, g, atomIdx)),
                                  layerInvariant(mol, g, atomIdx), atomIdx>>,
                        nbh |-> grownNeighborhood(mol, g, atomIdx)])]

RECURSIVE morganGatherLoop(_, _, _)
morganGatherLoop(mol, g, order) ==
  IF order = <<>> THEN g
  ELSE morganGatherLoop(mol, morganGatherAtom(mol, g, Head(order)),
                        Tail(order))

\* the first loop of a layer, and the sort of what it gathered
morganGather(mol, g) ==
  LET h == morganGatherLoop(mol, [g EXCEPT !.allNeighborhoodsThisRound = <<>>],
                            atomOrder(mol, g))
  IN [h EXCEPT !.allNeighborhoodsThisRound = sortByKey(@)]

\* what one step of the second loop did with a gathered neighbourhood
morganSeen(g, after, t) ==
  [after EXCEPT !.steps =
     Append(@, [atom |-> t.key[3], layer |-> g.layer + 1, nbh |-> t.nbh,
                known |-> t.nbh \in g.neighborhoods,
                emitted |-> after.result # g.result,
                dead |-> t.key[3] \in after.deadAtoms])]

\* variant: an emitted neighbourhood is not remembered
morganEmitOneForgetful(g, t) ==
  IF g.includeRedundantEnvironments \/ t.nbh \notin g.neighborhoods
  THEN IF (~g.onlyNonzeroInvariants \/ g.atomInvariants[t.key[3]] # 0) /\
          t.key[3] \in g.includeAtoms
       THEN [g EXCEPT !.result =
                        Append(@, [code |-> t.key[2], atom |-> t.key[3],
                                   layer |-> g.layer + 1, nbh |-> t.nbh])]
       ELSE g
  ELSE [g EXCEPT !.deadAtoms = @ \cup {t.key[3]}]

\* one step of the second loop of a layer
morganEmitOne(g, t) ==
  IF g.includeRedundantEnvironments \/ t.nbh \notin g.neighborhoods
  THEN IF (~g.onlyNonzeroInvariants \/ g.atomInvariants[t.key[3]] # 0) /\
          t.key[3] \in g.includeAtoms
       THEN [g EXCEPT !.result =
                        Append(@, [code |-> t.key[2], atom |-> t.key[3],
                                   layer |-> g.layer + 1, nbh |-> t.nbh]),
                      !.neighborhoods = @ \cup {t.nbh}]
       ELSE g
  ELSE [g EXCEPT !.deadAtoms = @ \cup {t.key[3]}]

RECURSIVE morganEmitLoop(_, _)
morganEmitLoop(g, ts) ==
  IF ts = <<>> THEN g
  ELSE morganEmitLoop(morganSeen(g, morganEmitOne(g, Head(ts)), Head(ts)),
                      Tail(ts))

\* the second loop of a layer and the hand-over to the next layer
morganEmit(mol, g) ==
  LET h == morganEmitLoop(g, g.allNeighborhoodsThisRound)
  IN [h EXCEPT !.currentInvariants = h.nextLayerInvariants,
               !.nextLayerInvariants = [a \in DOMAIN mol.atoms |-> 0],
               !.atomNeighborhoods = h.roundAtomNeighborhoods,
               !.allNeighborhoodsThisRound = <<>>,
               !.layer = @ + 1]

\* benzene, methylcyclobutane, [Na]CC.C, (E)-pent-2-ene, CCCCCC.C and propane
MorganMols == {1, 9, 12, 19, 20, Len(NamedMols) + 4}

MorganInvariants(mol) ==
  {[a \in DOMAIN mol.atoms |-> mol.atoms[a].Z],
   [a \in DOMAIN mol.atoms |-> IF a = 0 THEN 0 ELSE mol.atoms[a].Z]}

MorganAtomSets(mol) == {DOMAIN mol.atoms, {0, 1}}

\* the chiral tag and CIP code of atom 1; no other atom is tagged
MorganCips(mol) ==
  {[a \in DOMAIN mol.atoms |-> IF a = 1 THEN c ELSE "none"] :
     c \in {"none", "R", "unlabelled"}}

MorganCall(id, r, red, nz, chi, inv, inc, cip) ==
  [radius |-> r, includeRedundantEnvironments |-> red,
   onlyNonzeroInvariants |-> nz, includeChirality |-> chi,
   atomInvariants |-> inv, includeAtoms |-> inc, cip |-> cip,
   currentInvariants |-> inv,
   nextLayerInvariants |-> [a \in DOMAIN Mol(id).atoms |-> 0],
   atomNeighborhoods |-> [a \in DOMAIN Mol(id).atoms |-> {}],
   roundAtomNeighborhoods |-> [a \in DOMAIN Mol(id).atoms |-> {}],
   deadAtoms |-> {}, chiralAtoms |-> {}, neighborhoods |-> {},
   allNeighborhoodsThisRound |-> <<>>, result |-> <<>>, layer |-> 0,
   steps |-> <<>>]

InitMorgan ==
  /\ molId \in MorganMols
  /\ opts = [set15bounds |-> FALSE, scaleVDW |-> FALSE,
             useMacrocycle14config |-> FALSE, forceTransAmides |-> FALSE,
             withBondsAngles |-> FALSE]
  /\ pc = "getEnvironments"
  /\ mmat = initBoundsMat(1, 0, MAX_UPPER)
  /\ accumData = ComputedData(0, 0)
  /\ bonds = StaleBonds
  /\ angles = StaleAngles
  /\ err = "none"
  /\ hist = <<>>
  /\ ncalls = 0
  /\ entryMat = mmat
  /\ preVdw = mmat
  /\ \E r \in 0..MaxRadius, red \in BOOLEAN, nz \in BOOLEAN, chi \in BOOLEAN :
       \E inv \in MorganInvariants(Mol(molId)),
          inc \in MorganAtomSets(Mol(molId)), cip \in MorganCips(Mol(molId)) :
         call = MorganCall(molId, r, red, nz, chi, inv, inc, cip)
  /\ calls14 = <<>>
  /\ calls15 = <<>>
  /\ calls13 = <<>>
  /\ writers = {}

MorganLayerOrReturn == IF call.layer < call.radius THEN "gather" ELSE "returned"

MorganRound0 ==
  /\ pc = "getEnvironments"
  /\ call' = morganRound0(curMol, call)
  /\ pc' = MorganLayerOrReturn
  /\ UNCHANGED <<molId, opts, mmat, accumData, bonds, angles, err, hist,
                 ncalls, entryMat, preVdw, calls13, calls14, calls15, writers>>

MorganGather ==
  /\ pc = "gather"
  /\ call' = morganGather(curMol, call)
  /\ pc' = "emit"
  /\ UNCHANGED <<molId, opts, mmat, accumData, bonds, angles, err, hist,
                 ncalls, entryMat, preVdw, calls13, calls14, calls15, writers>>

MorganEmit ==
  /\ pc = "emit"
  /\ call' = morganEmit(curMol, call)
  /\ pc' = IF call.layer + 1 < call.radius THEN "gather" ELSE "returned"
  /\ UNCHANGED <<molId, opts, mmat, accumData, bonds, angles, err, hist,
                 ncalls, entryMat, preVdw, calls13, calls14, calls15, writers>>

NextMorgan == MorganRound0 \/ MorganGather \/ MorganEmit

SpecMorgan == InitMorgan /\ [][NextMorgan]_vars

---------------------------------------------------------------------------
(* Two invocations of setTopolBounds, each on its own molecule and matrix, *)
(* running at the same time.  Each variable holds one value per            *)
(* invocation; a step is one pass, or one bond of set12Bounds.             *)

Invocations == 1..2

\* CSSC, C/C=C/C and butane: three molecules with the same bonds (i, i + 1)
\* and different lengths, angles and torsion rules
ConcurrentMols == {5, 7, Len(NamedMols) + 5}

ConcurrentOptions ==
  {o \in Options : ~o.withBondsAngles /\ ~o.useMacrocycle14config /\
                   ~o.scaleVDW /\ o.forceTransAmides}

\* variant: one accumulator serves every invocation
accumOfShared(k) == 1

\* `ComputedData accumData(na, nb)` is a local of the invocation
accumOf(k) == k

\* the passes of setTopolBounds, one after the other, on matrix m
setTopolBounds(mol, m, o) ==
  setLowerBoundVDW(
    mol,
    (IF o.set15bounds
     THEN set15Bounds(
            mol,
            set14Bounds(mol,
              set13Bounds(mol,
                set12Bounds(mol,
                  PassState(m, ComputedData(getNumAtoms(mol),
                                            getNumBonds(mol))))),
              getDistanceMat(mol), o.useMacrocycle14config,
              o.forceTransAmides),
            getDistanceMat(mol))
     ELSE set14Bounds(mol,
            set13Bounds(mol,
              set12Bounds(mol,
                PassState(m, ComputedData(getNumAtoms(mol),
                                          getNumBonds(mol))))),
            getDistanceMat(mol), o.useMacrocycle14config,
            o.forceTransAmides)).m,
    o.scaleVDW, getDistanceMat(mol))

At(k, where) == pc[k].at = where
Running(k) == pc[k].at \notin {"idle", "done", "failed"}

InitConcurrent ==
  /\ molId \in [Invocations -> ConcurrentMols]
  /\ opts \in [Invocations -> ConcurrentOptions]
  /\ pc = [k \in Invocations |-> [at |-> "idle", i |-> 0]]
  /\ mmat = [k \in Invocations |->
               initBoundsMat(getNumAtoms(Mol(molId[k])), 0, MAX_UPPER)]
  /\ accumData = [k \in Invocations |-> ComputedData(0, 0)]
  /\ bonds = StaleBonds
  /\ angles = StaleAngles
  /\ err = "none"
  /\ hist = [k \in Invocations |-> FALSE]
  /\ ncalls = 0
  /\ entryMat = mmat
  /\ preVdw = mmat
  /\ call = NoCall
  /\ calls14 = <<>>
  /\ calls15 = <<>>
  /\ calls13 = <<>>
  /\ writers = {}

\* invocation k has made a step that left st; hist[k] notes whether it was
\* made while another invocation was between its first and last pass
RanOf(k, st, next) ==
  /\ mmat' = [mmat EXCEPT ![k] = st.m]
  /\ accumData' = [accumData EXCEPT ![accumOf(k)] = st.a]
  /\ pc' = [pc EXCEPT ![k] = IF st.ok THEN next
                             ELSE [at |-> "failed", i |-> 0]]
  /\ hist' = [hist EXCEPT ![k] =
                @ \/ \E j \in Invocations \ {k} : Running(j)]
  /\ UNCHANGED <<molId, opts, bonds, angles, err, ncalls, entryMat, preVdw,
                 call, calls13, calls14, calls15,
                 writers>>

StateOf(k) == PassState(mmat[k], accumData[accumOf(k)])

EnterOf(k) ==
  /\ At(k, "idle")
  /\ RanOf(k, PassState(mmat[k],
                        ComputedData(getNumAtoms(Mol(molId[k])),
                                     getNumBonds(Mol(molId[k])))),
           [at |-> "set12", i |-> 0])

\* one iteration of the loop of set12Bounds
Set12BondOf(k) ==
  /\ At(k, "set12")
  /\ RanOf(k, set12Bond(Mol(molId[k]), StateOf(k), pc[k].i),
           IF pc[k].i + 1 < getNumBonds(Mol(molId[k]))
           THEN [at |-> "set12", i |-> pc[k].i + 1]
           ELSE [at |-> "set13", i |-> 0])

Set13Of(k) ==
  /\ At(k, "set13")
  /\ RanOf(k, set13Bounds(Mol(molId[k]), StateOf(k)),
           [at |-> "set14", i |-> 0])

Set14Of(k) ==
  /\ At(k, "set14")
  /\ RanOf(k, set14Bounds(Mol(molId[k]), StateOf(k),
                          getDistanceMat(Mol(molId[k])),
                          opts[k].useMacrocycle14config,
                          opts[k].forceTransAmides),
           [at |-> afterSet14(opts[k]), i |-> 0])

Set15Of(k) ==
  /\ At(k, "set15")
  /\ RanOf(k, set15Bounds(Mol(molId[k]), StateOf(k),
                          getDistanceMat(Mol(molId[k]))),
           [at |-> "vdw", i |-> 0])

VdwOf(k) ==
  /\ At(k, "vdw")
  /\ RanOf(k, PassState(setLowerBoundVDW(Mol(molId[k]), mmat[k],
                                         opts[k].scaleVDW,
                                         getDistanceMat(Mol(molId[k]))),
                        accumData[accumOf(k)]),
           [at |-> "done", i |-> 0])

NextConcurrent ==
  \E k \in Invocations :
    \/ EnterOf(k)
    \/ Set12BondOf(k)
    \/ Set13Of(k)
    \/ Set14Of(k)
    \/ Set15Of(k)
    \/ VdwOf(k)

SpecConcurrent == InitConcurrent /\ [][NextConcurrent]_vars

\* a direct call has been made / has returned normally
Called == call.i # call.j
Returned == Called /\ call.ok
calledL == getLowerBound(mmat, call.i, call.j)
calledU == getUpperBound(mmat, call.i, call.j)
\* the pair of the call had both bounds set when the call was made
OnSetPair == Returned /\ call.clb > DIST12_DELTA /\ call.cub < MAX_UPPER

---------------------------------------------------------------------------
(* Properties of _checkAndSetBounds (under SpecDirect)                     *)

\* C2 as stated: on a pair whose bounds are set, a successful call never
\* lowers L and never raises U; L changes only when lb is larger than the
\* existing L, and U only when ub is smaller than the existing U.
CheckAndSetOnlyTightens ==
  OnSetPair =>
    /\ calledL >= call.clb
    /\ calledU <= call.cub
    /\ (calledL # call.clb => call.lb > call.clb)
    /\ (calledU # call.cub => call.ub < call.cub)

\* C2 amended: on a pair whose bounds are set, a successful call never raises
\* L and never lowers U; L changes only when lb is below the existing L and
\* above DIST12_DELTA, and becomes lb; U changes only when ub is above the
\* existing U and below MAX_UPPER, and becomes ub.
CheckAndSetOnlyWidens ==
  OnSetPair =>
    /\ calledL <= call.clb
    /\ calledU >= call.cub
    /\ (calledL # call.clb =>
          call.lb < call.clb /\ call.lb > DIST12_DELTA /\ calledL = call.lb)
    /\ (calledU # call.cub =>
          call.ub > call.cub /\ call.ub < MAX_UPPER /\ calledU = call.ub)

\* a call on a set pair that moved both bounds
WidenedBoth == OnSetPair /\ calledL < call.clb /\ calledU > call.cub

\* C3: when a call succeeds, an unset L (<= DIST12_DELTA) becomes exactly lb
\* and an unset U (>= MAX_UPPER) becomes exactly ub, each whatever the state
\* of the other half.
FirstWriteInstalls ==
  Returned =>
    /\ (call.clb <= DIST12_DELTA => calledL = call.lb)
    /\ (call.cub >= MAX_UPPER => calledU = call.ub)

\* U installed by a call that found L set and left it alone
InstalledUpperOnly ==
  /\ Returned
  /\ call.cub >= MAX_UPPER /\ call.ub < MAX_UPPER /\ calledU = call.ub
  /\ call.clb > DIST12_DELTA /\ calledL = call.clb /\ call.lb # call.clb

\* C4: a call with ub <= lb, or with lb <= DIST12_DELTA on a pair whose L is
\* <= DIST12_DELTA, fails, and the matrix is as it was before the call.
CheckAndSetFailsUnmodified ==
  (Called /\ (call.ub <= call.lb \/
              (call.lb <= DIST12_DELTA /\ call.clb <= DIST12_DELTA))) =>
    (~call.ok /\ mmat = call.before)

\* a failed call for the second reason alone, on a matrix that already has
\* set entries
FailedOnUnsetLower ==
  /\ Called /\ ~call.ok
  /\ call.ub > call.lb /\ call.lb <= DIST12_DELTA /\ call.clb <= DIST12_DELTA
  /\ \E p \in DOMAIN mmat.lb : mmat.lb[p] > DIST12_DELTA

---------------------------------------------------------------------------
(* Properties of setTopolBounds (under Spec)                               *)

Last(seq) == seq[Len(seq)]
VdwJustRan == hist # <<>> /\ (Last(hist) = "vdw" \/ Last(hist) = "collect")
\* the invocation was entered on a matrix as initBoundsMat leaves it
EnteredUnset ==
  \A p \in DOMAIN entryMat.lb :
    entryMat.lb[p] <= DIST12_DELTA /\ entryMat.ub[p] = MAX_UPPER
topolDist(p) == curDist[p[1] * getNumAtoms(curMol) + p[2]]
rvdwSum(p) == getRvdw(curMol.atoms[p[1]].Z) + getRvdw(curMol.atoms[p[2]].Z)
flagged15(p) == (p[1] * getNumAtoms(curMol) + p[2]) \in accumData.set15Atoms

\* C1: when setTopolBounds has returned on a matrix that was entered with
\* every L unset and every U at the sentinel, every pair has 0 < L <= U.
TopolBoundsOrdered ==
  (pc = "done" /\ EnteredUnset) =>
    \A p \in DOMAIN mmat.lb : 0 < mmat.lb[p] /\ mmat.lb[p] <= mmat.ub[p]

\* a successful run with set15bounds in which a 1-5 pair carries the VDW
\* default as L together with a computed U
WroteDefaultAndBracket15 ==
  /\ pc = "done" /\ EnteredUnset /\ opts.set15bounds
  /\ \E p \in DOMAIN mmat.lb :
       /\ flagged15(p)
       /\ mmat.lb[p] = VDW_SCALE_15(rvdwSum(p))
       /\ mmat.ub[p] < MAX_UPPER

passesRun == SelectSeq(hist, LAMBDA x : x # "collect")
passesExpected ==
  <<"set12", "set13", "set14">> \o
  (IF opts.set15bounds THEN <<"set15">> ELSE <<>>) \o <<"vdw">>
IsPrefix(a, b) == Len(a) <= Len(b) /\ a = SubSeq(b, 1, Len(a))

\* C5: the passes run in the order set12, set13, set14, set15, vdw, one after
\* the other; set15 runs exactly when set15bounds is true; when it is false
\* the pass that follows set14 is vdw, which starts from the matrix set14
\* left, and the matrix changes only when a pass runs.
PassesInOrder ==
  /\ [](/\ IsPrefix(passesRun, passesExpected)
        /\ (pc = "done" => passesRun = passesExpected)
        /\ (pc \in {"set12", "set13", "set14", "set15", "vdw"} =>
              passesExpected[Len(passesRun) + 1] = pc))
  /\ [][/\ (mmat' # mmat => hist' # <<>> /\ hist' = Append(hist, Last(hist')))
        /\ ((~opts.set15bounds /\ hist # <<>> /\ Last(hist) = "set14" /\
             hist' # hist) =>
              (Last(hist') = "vdw" /\ preVdw' = mmat))]_vars

\* a run without set15bounds that returned, on a molecule with 1-4 paths
ReturnedWithoutSet15 ==
  pc = "done" /\ ~opts.set15bounds /\ Len(accumData.paths14) > 0

InputDomainError == getNumAtoms(curMol) = 0 \/ tooManyBonds(curMol)

\* C6: with no atoms, or with MAX_NUM_BONDS bonds or more, either overload
\* fails before any pass has run, and the matrix is as it was on entry.
InputErrorsAtEntry ==
  InputDomainError =>
    /\ pc # "done"
    /\ (pc = "failed" => hist = <<>> /\ mmat = entryMat)

\* C7: a second invocation (and any later one) with the same molecule and
\* options returns with the matrix exactly as it was on entry.
SecondCallIdempotent ==
  (pc = "done" /\ ncalls >= 1) => mmat = entryMat

\* the second invocation returned, with set15bounds, on a matrix holding a
\* computed 1-5 bracket
SecondCallReturned15 ==
  /\ pc = "done" /\ ncalls = 1 /\ opts.set15bounds
  /\ \E p \in DOMAIN mmat.lb : topolDist(p) = 4 /\ mmat.ub[p] < MAX_UPPER

vdwExpected(p) ==
  IF topolDist(p) = 4 THEN (7 * rvdwSum(p)) \div 10
  ELSE IF topolDist(p) = 5 THEN (85 * rvdwSum(p)) \div 100
  ELSE rvdwSum(p)

\* C8: setLowerBoundVDW gives every pair whose L was <= DIST12_DELTA when it
\* started (equality included) the lower bound 0.7 v at 4 bonds, 0.85 v at
\* 5 bonds, and v otherwise.
VdwFillsEveryUnsetPair ==
  VdwJustRan =>
    \A p \in DOMAIN mmat.lb :
      preVdw.lb[p] <= DIST12_DELTA => mmat.lb[p] = vdwExpected(p)

\* C9: setLowerBoundVDW leaves every U, and every L that was above
\* DIST12_DELTA, as it found them.
VdwFrame ==
  VdwJustRan =>
    /\ mmat.ub = preVdw.ub
    /\ \A p \in DOMAIN mmat.lb :
         preVdw.lb[p] > DIST12_DELTA => mmat.lb[p] = preVdw.lb[p]

\* setLowerBoundVDW wrote some lower bound and found others set
VdwWroteSome ==
  /\ VdwJustRan
  /\ \E p \in DOMAIN mmat.lb : mmat.lb[p] # preVdw.lb[p]
  /\ \E p \in DOMAIN mmat.lb : preVdw.lb[p] > DIST12_DELTA

sharingPairs ==
  {pr \in BondIds(curMol) \X BondIds(curMol) :
     /\ pr[1] < pr[2]
     /\ {curMol.bonds[pr[1]].beg, curMol.bonds[pr[1]].end} \cap
        {curMol.bonds[pr[2]].beg, curMol.bonds[pr[2]].end} # {}}
sharedAtom(pr) ==
  CHOOSE a \in {curMol.bonds[pr[1]].beg, curMol.bonds[pr[1]].end} :
    a \in {curMol.bonds[pr[2]].beg, curMol.bonds[pr[2]].end}
flagExpected(pr) ==
  IF \/ curMol.bonds[pr[1]].type = "TRIPLE"
     \/ curMol.bonds[pr[2]].type = "TRIPLE"
     \/ /\ curMol.bonds[pr[1]].type = "DOUBLE"
        /\ curMol.bonds[pr[2]].type = "DOUBLE"
        /\ Cardinality({b \in BondIds(curMol) :
                          sharedAtom(pr) \in {curMol.bonds[b].beg,
                                              curMol.bonds[b].end}}) = 2
  THEN 1 ELSE 0
recordsExpected(pr) ==
  LET a2 == sharedAtom(pr)
      a1 == getOtherAtomIdx(curMol, pr[1], a2)
      a3 == getOtherAtomIdx(curMol, pr[2], a2)
  IN {<<a1, a2, a3, flagExpected(pr)>>, <<a3, a2, a1, flagExpected(pr)>>}

\* C10: when the bonds/angles overload has returned, bonds holds exactly one
\* (begin, end) per bond, and angles exactly one (a1, a2, a3, flag) per
\* unordered pair of bonds sharing an atom, a2 being the shared atom and
\* flag = 1 exactly when a bond is TRIPLE or both are DOUBLE around an atom
\* of degree 2; nothing of the previous contents remains.
CollectedBondsAndAngles ==
  (pc = "done" /\ opts.withBondsAngles) =>
    /\ Len(bonds) = getNumBonds(curMol)
    /\ \A b \in BondIds(curMol) :
         Cardinality({k \in 1..Len(bonds) :
            bonds[k] = <<curMol.bonds[b].beg, curMol.bonds[b].end>>}) = 1
    /\ Len(angles) = Cardinality(sharingPairs)
    /\ \A pr \in sharingPairs :
         Cardinality({k \in 1..Len(angles) :
            angles[k] \in recordsExpected(pr)}) = 1

\* the overload returned on a molecule with flagged and unflagged angles,
\* among them two DOUBLE bonds around an atom of degree above 2
CollectedBothFlags ==
  /\ pc = "done" /\ opts.withBondsAngles
  /\ \E k \in 1..Len(angles) : angles[k][4] = 0 /\
       \E pr \in sharingPairs :
          /\ angles[k] \in recordsExpected(pr)
          /\ curMol.bonds[pr[1]].type = "DOUBLE"
          /\ curMol.bonds[pr[2]].type = "DOUBLE"

---------------------------------------------------------------------------
(* Properties of set13Bounds (under Spec)                                  *)

\* set13Bounds has returned normally in this invocation
Done13 ==
  \E k \in 1..Len(hist) :
    hist[k] = "set13" /\ (k < Len(hist) \/ pc # "failed")

\* C17: once set13Bounds has returned, every two bonds that share an atom
\* have a positive entry in bondAngles and the shared atom's index in
\* bondAdjacency.
AnglesOfSharingBonds ==
  Done13 =>
    \A pr \in sharingPairs :
      /\ accumData.bondAngles[Pair(pr[1], pr[2])] > 0
      /\ accumData.bondAdj[Pair(pr[1], pr[2])] = sharedAtom(pr)

\* set13Bounds has just returned on a molecule with a ring atom that carries
\* a bond outside every ring
RingAndExocyclicAnglesSet ==
  /\ Len(hist) > 0
  /\ hist[Len(hist)] = "set13"
  /\ pc # "failed"
  /\ \E pr \in sharingPairs :
       /\ numAtomRings(curMol, sharedAtom(pr)) > 0
       /\ numBondRings(curMol, pr[1]) = 0 \/ numBondRings(curMol, pr[2]) = 0
  /\ \E pr \in sharingPairs :
       /\ numBondRings(curMol, pr[1]) > 0
       /\ numBondRings(curMol, pr[2]) > 0

\* the steps of the ring phase, as positions in calls13
ringSteps13 == {k \in 1..Len(calls13) : calls13[k].phase = "ring"}

\* the rings in which the bonds b1 and b2 follow one another
ringsWithPair(b1, b2) ==
  {k \in 1..Len(curMol.bondRings) :
     \E i \in 1..Len(curMol.bondRings[k]) :
       {curMol.bondRings[k][i],
        curMol.bondRings[k][(i % Len(curMol.bondRings[k])) + 1]} = {b1, b2}}

smallestRingWithPair(b1, b2) ==
  CHOOSE n \in {Len(curMol.bondRings[k]) : k \in ringsWithPair(b1, b2)} :
    \A k \in ringsWithPair(b1, b2) : n <= Len(curMol.bondRings[k])

\* the sum of the angles of the steps in ks
RECURSIVE anglesOf13(_)
anglesOf13(ks) ==
  IF ks = {} THEN 0
  ELSE LET k == CHOOSE x \in ks : TRUE
       IN calls13[k].angle + anglesOf13(ks \ {k})

\* C24: the ring phase of set13Bounds processes every pair of bonds that
\* follow one another in some ring exactly once, however many rings hold
\* the pair: visited and angleTaken of the central atom grow once per pair,
\* and the angle is that of the smallest ring holding the pair.
RingPairsProcessedOnce ==
  Done13 =>
    /\ \A i, j \in ringSteps13 :
         i < j => {calls13[i].bid1, calls13[i].bid2} #
                  {calls13[j].bid1, calls13[j].bid2}
    /\ \A pr \in sharingPairs :
         ringsWithPair(pr[1], pr[2]) # {} =>
           \E i \in ringSteps13 :
             {calls13[i].bid1, calls13[i].bid2} = {pr[1], pr[2]}
    /\ \A i \in ringSteps13 :
         LET e == calls13[i]
             earlier == {j \in ringSteps13 : j < i /\ calls13[j].aid2 = e.aid2}
         IN /\ ringsWithPair(e.bid1, e.bid2) # {}
            /\ e.rSize = smallestRingWithPair(e.bid1, e.bid2)
            /\ e.angle = _setRingAngle(curMol.atoms[e.aid2].hyb,
                                       smallestRingWithPair(e.bid1, e.bid2))
            /\ e.visited = Cardinality(earlier)
            /\ e.angleTaken = anglesOf13(earlier)

\* set13Bounds has returned on a molecule in which a pair of bonds lies in
\* two rings of different sizes, the larger one first in the ring info
PairOfTwoRingsProcessed ==
  /\ Done13
  /\ \E i \in ringSteps13 :
       \E k, l \in ringsWithPair(calls13[i].bid1, calls13[i].bid2) :
         /\ k < l
         /\ Len(curMol.bondRings[k]) > Len(curMol.bondRings[l])
         /\ calls13[i].rSize = Len(curMol.bondRings[l])

\* the number of pairs of bonds at an atom
n13Of(a) == (getDegree(curMol, a) * (getDegree(curMol, a) - 1)) \div 2

\* the steps of set13Bounds at atom a, as positions in calls13
stepsAt13(a) == {k \in 1..Len(calls13) : calls13[k].aid2 = a}

\* the pairs of bonds at atom a whose bondAngles entry is assigned
assignedAt13(a) ==
  {pr \in sharingPairs :
     /\ accumData.bondAdj[Pair(pr[1], pr[2])] = a
     /\ accumData.bondAngles[Pair(pr[1], pr[2])] >= 0}

\* C29: throughout set13Bounds visited[a] is the number of pairs of bonds
\* at a that have been assigned an angle, and it never exceeds n13; the
\* divisor n13 - visited[a] of the sp2 remainder angle is at least 1; an
\* atom whose pairs were all assigned in the ring phase gets no further
\* angle.
VisitedCountsAssignedPairs ==
  /\ \A i \in 1..Len(calls13) :
       LET e == calls13[i]
       IN /\ e.was < 0
          /\ \A j \in 1..(i - 1) :
               {calls13[j].bid1, calls13[j].bid2} # {e.bid1, e.bid2}
          /\ e.visited = Cardinality({j \in stepsAt13(e.aid2) : j < i})
          /\ e.visited + 1 <= n13Of(e.aid2)
          /\ e.phase = "visited" => n13Of(e.aid2) - e.visited >= 1
          /\ e.phase # "ring" =>
               Cardinality({j \in stepsAt13(e.aid2) :
                              calls13[j].phase = "ring"}) < n13Of(e.aid2)
  /\ Done13 =>
       \A a \in DOMAIN curMol.atoms :
         /\ Cardinality(stepsAt13(a)) = Cardinality(assignedAt13(a))
         /\ Cardinality(stepsAt13(a)) <= n13Of(a)

\* set13Bounds has returned on a molecule with an sp2 ring atom whose last
\* pair was assigned with the divisor 1, and a ring atom whose only pair
\* was assigned in the ring phase
RemainderDividedByOne ==
  /\ Done13
  /\ \E i \in 1..Len(calls13) :
       /\ calls13[i].phase = "visited"
       /\ curMol.atoms[calls13[i].aid2].hyb = "SP2"
       /\ n13Of(calls13[i].aid2) - calls13[i].visited = 1
  /\ \E a \in DOMAIN curMol.atoms :
       /\ n13Of(a) >= 1
       /\ \A k \in stepsAt13(a) : calls13[k].phase = "ring"
       /\ Cardinality(stepsAt13(a)) = n13Of(a)

---------------------------------------------------------------------------
(* Properties of set14Bounds (under Spec)                                  *)

\* set14Bounds has returned normally in this invocation
Done14 ==
  \E k \in 1..Len(hist) :
    hist[k] = "set14" /\ (k < Len(hist) \/ pc # "failed")

\* the atoms, lengths and angles of the path of a dispatch call
pathOf(c) == Path14(curMol, [a |-> accumData], c.bid1, c.bid2, c.bid3)
keysOf(c) ==
  {PackKey(c.bid1, c.bid2, c.bid3, getNumBonds(curMol)),
   PackKey(c.bid3, c.bid2, c.bid1, getNumBonds(curMol))}
\* the tags of the paths14 records of the triple of a dispatch call
tagsOf(c) ==
  {accumData.paths14[k].type : k \in
     {x \in 1..Len(accumData.paths14) :
        /\ accumData.paths14[x].bid1 = c.bid1
        /\ accumData.paths14[x].bid2 = c.bid2
        /\ accumData.paths14[x].bid3 = c.bid3}}
lowerOf(c) == getLowerBound(mmat, pathOf(c).aid1, pathOf(c).aid4)
upperOf(c) == getUpperBound(mmat, pathOf(c).aid1, pathOf(c).aid4)
callsOf(name) == {calls14[k] : k \in {x \in 1..Len(calls14) :
                                        calls14[x].routine = name}}

\* SINGLE middle bond, central atoms not both sulfur, amide/ester pattern in
\* either ordering
amideEsterCall(c) ==
  LET q == pathOf(c)
  IN /\ curMol.bonds[c.bid2].type = "SINGLE"
     /\ ~(curMol.atoms[q.atm2].Z = 16 /\ curMol.atoms[q.atm3].Z = 16)
     /\ \/ _checkAmideEster14(curMol, c.bid1, c.bid3, q.aid1, q.atm2, q.atm3,
                               q.aid4)
        \/ _checkAmideEster14(curMol, c.bid3, c.bid1, q.aid4, q.atm3, q.atm2,
                               q.aid1)

\* a terminal atom of the path is the H of a secondary amide N
terminalAmideH(c) ==
  LET q == pathOf(c)
      isHOn(h, n) == /\ curMol.atoms[h].Z = 1 /\ curMol.atoms[n].Z = 7
                     /\ getDegree(curMol, n) = 3 /\ curMol.atoms[n].nH = 1
  IN isHOn(q.aid1, q.atm2) \/ isHOn(q.aid4, q.atm3)

\* the path of c carries exactly this tag and these bounds
taggedAndBounded(c, tag, lb, ub) ==
  tagsOf(c) = {tag} /\ lowerOf(c) = lb /\ upperOf(c) = ub

\* C11: once set14Bounds has returned, every path _setChain14Bounds was
\* called for that has a SINGLE middle bond, central atoms not both sulfur
\* and the amide/ester pattern is, with forceTransAmides, tagged TRANS in
\* transPaths with bounds TransDist -/+ 0.06 when a terminal atom is the H of
\* a secondary amide N, and tagged CIS in cisPaths with bounds CisDist -/+
\* 0.06 otherwise; without forceTransAmides it is tagged OTHER with bounds
\* [CisDist, TransDist] and is in neither cisPaths nor transPaths.
ChainAmideForcedTrans ==
  Done14 =>
    \A c \in callsOf("Chain14") :
      amideEsterCall(c) =>
        IF ~opts.forceTransAmides
        THEN /\ taggedAndBounded(c, "OTHER", Cis14(pathOf(c)),
                                 Trans14(pathOf(c)))
             /\ keysOf(c) \cap (accumData.cisPaths \cup
                                 accumData.transPaths) = {}
        ELSE IF terminalAmideH(c)
        THEN /\ taggedAndBounded(c, "TRANS",
                                 Trans14(pathOf(c)) - GEN_DIST_TOL,
                                 Trans14(pathOf(c)) + GEN_DIST_TOL)
             /\ keysOf(c) \subseteq accumData.transPaths
             /\ keysOf(c) \cap accumData.cisPaths = {}
        ELSE /\ taggedAndBounded(c, "CIS", Cis14(pathOf(c)) - GEN_DIST_TOL,
                                 Cis14(pathOf(c)) + GEN_DIST_TOL)
             /\ keysOf(c) \subseteq accumData.cisPaths
             /\ keysOf(c) \cap accumData.transPaths = {}

\* with forceTransAmides, a molecule in which one amide path ends in the H
\* of the secondary N and another in its carbon substituent
ForcedTransAndCisAmide ==
  /\ Done14 /\ opts.forceTransAmides
  /\ \E c, d \in callsOf("Chain14") :
       /\ amideEsterCall(c) /\ terminalAmideH(c) /\ tagsOf(c) = {"TRANS"}
       /\ amideEsterCall(d) /\ ~terminalAmideH(d) /\ tagsOf(d) = {"CIS"}

\* the paths H-N-C=O of a primary amide: a terminal H on an N that carries
\* two hydrogens, the other terminal atom an O doubly bonded to a carbon
primaryAmideHO(c) ==
  LET q == pathOf(c)
      isHNCO(h, n, cc, o, bco) ==
        /\ curMol.atoms[h].Z = 1 /\ curMol.atoms[n].Z = 7
        /\ curMol.atoms[n].nH = 2 /\ curMol.atoms[cc].Z = 6
        /\ curMol.atoms[o].Z = 8 /\ curMol.bonds[bco].type = "DOUBLE"
  IN \/ isHNCO(q.aid1, q.atm2, q.atm3, q.aid4, c.bid3)
     \/ isHNCO(q.aid4, q.atm3, q.atm2, q.aid1, c.bid1)

\* C12 as stated: when setTopolBounds has returned with forceTransAmides,
\* each amide-H / carbonyl-O pair of a primary amide (acetamide) has
\* L = TransDist - 0.06 and U = TransDist + 0.06.
PrimaryAmideHForcedTrans ==
  (pc = "done" /\ opts.forceTransAmides) =>
    \A c \in callsOf("Chain14") :
      primaryAmideHO(c) =>
        /\ lowerOf(c) = Trans14(pathOf(c)) - GEN_DIST_TOL
        /\ upperOf(c) = Trans14(pathOf(c)) + GEN_DIST_TOL

\* C12 amended: each such pair has the default bracket L = CisDist,
\* U = TransDist, its path is tagged OTHER and is in neither cisPaths nor
\* transPaths.
PrimaryAmideHDefaultBracket ==
  (pc = "done" /\ opts.forceTransAmides) =>
    \A c \in callsOf("Chain14") :
      primaryAmideHO(c) =>
        /\ taggedAndBounded(c, "OTHER", Cis14(pathOf(c)), Trans14(pathOf(c)))
        /\ keysOf(c) \cap (accumData.cisPaths \cup accumData.transPaths) = {}

\* acetamide has been processed with forceTransAmides: both H-N-C=O paths
\* have gone through _setChain14Bounds
AcetamideProcessed ==
  /\ pc = "done" /\ opts.forceTransAmides /\ curMol = Acetamide
  /\ Cardinality({c \in callsOf("Chain14") : primaryAmideHO(c)}) = 2

\* the consecutive bond triples of the rings of the molecule, each with the
\* size of its ring
ringPaths ==
  UNION {{[bid1 |-> curMol.bondRings[k][IF i = 1
                                         THEN Len(curMol.bondRings[k])
                                         ELSE i - 1],
           bid2 |-> curMol.bondRings[k][i],
           bid3 |-> curMol.bondRings[k][(i % Len(curMol.bondRings[k])) + 1],
           rSize |-> Len(curMol.bondRings[k])] :
            i \in 1..Len(curMol.bondRings[k])} :
         k \in 1..Len(curMol.bondRings)}

\* the routines called for a ring triple with its ring size
routinesFor(t) ==
  {calls14[k].routine : k \in
     {x \in 1..Len(calls14) :
        /\ calls14[x].bid1 = t.bid1 /\ calls14[x].bid2 = t.bid2
        /\ calls14[x].bid3 = t.bid3 /\ calls14[x].rSize = t.rSize}}

inMacrocycle(bid) ==
  \E k \in 1..Len(curMol.bondRings) :
    Len(curMol.bondRings[k]) >= 9 /\ SeqHas(curMol.bondRings[k], bid)

\* C13: a ring triple of a ring of size >= 6 is handed to
\* MacrocycleAllInSameRing14 when useMacrocycle14 is true and the ring size
\* is >= 9, and to InRing14 with the ring size otherwise;
\* MacrocycleTwoInSameRing14 is called only with useMacrocycle14 for a triple
\* whose middle bond is in a ring of size >= 9; without useMacrocycle14
\* neither macrocycle routine is called.
MacrocycleRoutinesGated ==
  /\ \A c \in callsOf("MacrocycleAllInSameRing14") :
       opts.useMacrocycle14config /\ c.rSize >= 9
  /\ \A c \in callsOf("MacrocycleTwoInSameRing14") :
       opts.useMacrocycle14config /\ inMacrocycle(c.bid2)
  /\ \A c \in callsOf("InRing14") :
       c.rSize >= 6 /\ ~(opts.useMacrocycle14config /\ c.rSize >= 9)
  /\ Done14 =>
       \A t \in ringPaths :
         t.rSize >= 6 =>
           routinesFor(t) =
             {IF opts.useMacrocycle14config /\ t.rSize >= 9
              THEN "MacrocycleAllInSameRing14" ELSE "InRing14"}

\* a run with useMacrocycle14 that called both macrocycle routines
BothMacrocycleRoutinesCalled ==
  /\ Done14 /\ opts.useMacrocycle14config
  /\ callsOf("MacrocycleAllInSameRing14") # {}
  /\ callsOf("MacrocycleTwoInSameRing14") # {}

\* C15 as stated: every routine a pass of setTopolBounds has written matrix
\* entries with is _checkAndSetBounds.
CheckAndSetOnlyWriter ==
  \A w \in writers : w[2] = "_checkAndSetBounds"

\* C15 amended: set13Bounds, set14Bounds and set15Bounds write matrix entries
\* with _checkAndSetBounds only; set12Bounds writes with setUpperBound and
\* setLowerBound, and setLowerBoundVDW with setLowerBound; a pass that
\* changes the matrix has written with one of these.
WritersOfEachPass ==
  /\ [](\A w \in writers :
          w[2] \in (CASE w[1] = "set12" -> {"setUpperBound", "setLowerBound"}
                      [] w[1] = "vdw" -> {"setLowerBound"}
                      [] OTHER -> {"_checkAndSetBounds"}))
  /\ [][mmat' # mmat => \E w \in writers' : w[1] = Last(hist')]_vars

\* an invocation has returned in which each of the five passes wrote
AllPassesWrote ==
  /\ pc = "done"
  /\ {w[1] : w \in writers} = {"set12", "set13", "set14", "set15", "vdw"}

\* the keys under which a paths14 record is entered in cisPaths or
\* transPaths: its triple and the reversed triple
keysOfRecord(r) ==
  {PackKey(r.bid1, r.bid2, r.bid3, getNumBonds(curMol)),
   PackKey(r.bid3, r.bid2, r.bid1, getNumBonds(curMol))}

\* C16: once set14Bounds has returned, every key in cisPaths is the key of a
\* paths14 record (of its triple or the reversed triple) tagged CIS, and
\* every key in transPaths that of a record tagged TRANS.
PathKeysHaveTaggedRecord ==
  Done14 =>
    /\ \A key \in accumData.cisPaths :
         \E k \in 1..Len(accumData.paths14) :
           /\ accumData.paths14[k].type = "CIS"
           /\ key \in keysOfRecord(accumData.paths14[k])
    /\ \A key \in accumData.transPaths :
         \E k \in 1..Len(accumData.paths14) :
           /\ accumData.paths14[k].type = "TRANS"
           /\ key \in keysOfRecord(accumData.paths14[k])

\* a path that lies in two rings has been recorded twice with the tag CIS
CisPathOfTwoRingsRecorded ==
  /\ Done14
  /\ \E k, l \in 1..Len(accumData.paths14) :
       /\ k < l
       /\ accumData.paths14[k] = accumData.paths14[l]
       /\ accumData.paths14[k].type = "CIS"
       /\ keysOfRecord(accumData.paths14[k]) \subseteq accumData.cisPaths

\* every 1-4 path of the molecule: three distinct bonds b1-b2-b3, b1 at one
\* end of b2 and b3 at the other, with its terminal atoms a1 and a4
allPaths14 ==
  {[bid1 |-> t[1], bid2 |-> t[2], bid3 |-> t[3],
    a1 |-> getOtherAtomIdx(curMol, t[1], t[4]),
    a4 |-> getOtherAtomIdx(curMol, t[3],
                           getOtherAtomIdx(curMol, t[2], t[4]))] :
     t \in {u \in BondIds(curMol) \X BondIds(curMol) \X BondIds(curMol) \X
                  AtomIds(curMol) :
              /\ u[1] # u[2] /\ u[3] # u[2] /\ u[1] # u[3]
              /\ u[4] \in {curMol.bonds[u[2]].beg, curMol.bonds[u[2]].end}
              /\ u[4] \in {curMol.bonds[u[1]].beg, curMol.bonds[u[1]].end}
              /\ getOtherAtomIdx(curMol, u[2], u[4]) \in
                   {curMol.bonds[u[3]].beg, curMol.bonds[u[3]].end}}}

boundsSet(a, b) ==
  /\ mmat.lb[Pair(a, b)] > DIST12_DELTA
  /\ mmat.ub[Pair(a, b)] < MAX_UPPER

\* C18: once set14Bounds has returned, the terminal atoms of every 1-4 path
\* b1-b2-b3 either have both bounds set (L > DIST12_DELTA, U < MAX_UPPER) or
\* are at topological distance < 3, whatever the options.
Every14PairBoundedOrCloser ==
  Done14 =>
    \A q \in allPaths14 :
      \/ q.a1 = q.a4
      \/ topolDist(Pair(q.a1, q.a4)) < 3
      \/ boundsSet(q.a1, q.a4)

\* set14Bounds has just returned with useMacrocycle14config set, having left
\* out a path whose terminal atoms are closer than three bonds and having
\* bounded one whose terminal atoms are three bonds apart
SkippedAndBounded14 ==
  /\ Len(hist) > 0
  /\ hist[Len(hist)] = "set14"
  /\ pc # "failed"
  /\ opts.useMacrocycle14config
  /\ \E c \in {calls14[k] : k \in 1..Len(calls14)} :
       /\ c.routine # "record14Path"
       /\ ~c.wrote /\ ~c.recorded
  /\ \E q \in allPaths14 :
       /\ q.a1 # q.a4
       /\ topolDist(Pair(q.a1, q.a4)) >= 3
       /\ boundsSet(q.a1, q.a4)
       /\ entryMat.lb[Pair(q.a1, q.a4)] <= DIST12_DELTA

allCalls14 == {calls14[k] : k \in 1..Len(calls14)}

\* the terminal atoms of the path of a dispatch call are fewer than three
\* bonds apart, or a1 - atm3 or a4 - atm2 are bonded
notA14Contact(c) ==
  LET q == pathOf(c)
  IN \/ q.aid1 = q.aid4
     \/ topolDist(Pair(q.aid1, q.aid4)) < 3
     \/ \E b \in BondIds(curMol) :
          \/ {curMol.bonds[b].beg, curMol.bonds[b].end} = {q.aid1, q.atm3}
          \/ {curMol.bonds[b].beg, curMol.bonds[b].end} = {q.aid4, q.atm2}

skipped14(c) == ~c.wrote /\ ~c.recorded /\ ~c.keyed

gatedRoutines14 ==
  {"InRing14", "TwoInSameRing14", "TwoInDiffRing14", "ShareRingBond14",
   "MacrocycleTwoInSameRing14"}

ungatedRoutines14 ==
  {"Chain14", "MacrocycleAllInSameRing14"}

\* C19 as stated: every dispatch routine skips a path whose terminal atoms
\* are fewer than three bonds apart or that has a bond a1 - atm3 or
\* a4 - atm2: no bound written, no paths14, cisPaths or transPaths entry.
FeasibilityGateInEveryRoutine ==
  Done14 =>
    \A c \in allCalls14 :
      (c.routine # "record14Path" /\ notA14Contact(c)) => skipped14(c)

\* C19: _setInRing14Bounds (with _setTwoInDiffRing14Bounds and
\* _setShareRingBond14Bounds, which call it), _setTwoInSameRing14Bounds and
\* _setMacrocycleTwoInSameRing14Bounds skip such a path; _setChain14Bounds
\* and _setMacrocycleAllInSameRing14Bounds have no gate and record every
\* path they are handed.
FeasibilityGateWhereCoded ==
  Done14 =>
    /\ \A c \in allCalls14 :
         (c.routine \in gatedRoutines14 /\ notA14Contact(c)) => skipped14(c)
    /\ \A c \in allCalls14 :
         c.routine \in ungatedRoutines14 => c.recorded

\* a gated routine has skipped a path and an ungated one has recorded a path
\* whose terminal atoms are two bonds apart
GateSkippedAndGateMissing ==
  /\ Done14
  /\ \E c \in allCalls14 :
       c.routine \in gatedRoutines14 /\ notA14Contact(c) /\ skipped14(c)
  /\ \E c \in allCalls14 :
       c.routine \in ungatedRoutines14 /\ notA14Contact(c) /\ c.recorded

\* a call of _setTwoInDiffRing14Bounds or _setShareRingBond14Bounds that got
\* past the gate, on a path with two sp2 central atoms and no stereo on the
\* middle bond
delegatedSp2Call(c) ==
  /\ c.routine \in {"TwoInDiffRing14", "ShareRingBond14"}
  /\ c.recorded
  /\ curMol.atoms[pathOf(c).atm2].hyb = "SP2"
  /\ curMol.atoms[pathOf(c).atm3].hyb = "SP2"
  /\ curMol.bonds[c.bid2].stereo \in {"NONE", "STEREOANY"}

\* the ring test inside the `ringSize <= 8` branch of _setInRing14Bounds
ringRuleCis(c) ==
  \/ numBondRings(curMol, c.bid2) <= 1
  \/ /\ numBondRings(curMol, c.bid1) = 1
     /\ numBondRings(curMol, c.bid3) = 1
     /\ \E k \in 1..Len(curMol.bondRings) :
          /\ SeqHas(curMol.bondRings[k], c.bid1)
          /\ SeqHas(curMol.bondRings[k], c.bid3)
          /\ \A j \in 1..(k - 1) : ~SeqHas(curMol.bondRings[j], c.bid1)

\* C21 as stated: such a path is not tagged CIS and not added to cisPaths.
DelegatedRingSizeZeroNotCis ==
  Done14 =>
    \A c \in allCalls14 :
      delegatedSp2Call(c) =>
        "CIS" \notin tagsOf(c) /\ keysOf(c) \cap accumData.cisPaths = {}

\* C21: ringSize = 0 passes the test `ringSize <= 8`, so the ring-size rule
\* applies to the delegated calls: such a path is tagged CIS and added to
\* cisPaths when the ring test of the rule holds, and tagged OTHER when it
\* does not.
DelegatedRingSizeZeroCis ==
  Done14 =>
    \A c \in allCalls14 :
      delegatedSp2Call(c) =>
        IF ringRuleCis(c)
        THEN tagsOf(c) = {"CIS"} /\ keysOf(c) \subseteq accumData.cisPaths
        ELSE tagsOf(c) = {"OTHER"}

\* _setShareRingBond14Bounds has tagged the path between two substituents
\* on neighbouring sp2 ring atoms CIS
OrthoSubstituentsCis ==
  /\ Done14
  /\ \E c \in allCalls14 :
       /\ c.routine = "ShareRingBond14"
       /\ delegatedSp2Call(c)
       /\ tagsOf(c) = {"CIS"}
       /\ c.keyed /\ c.wrote

\* how many paths14 records, and how many recording dispatch calls, there
\* are for the triple of a call
recordsOfTriple(c) ==
  Cardinality({x \in 1..Len(accumData.paths14) :
                 /\ accumData.paths14[x].bid1 = c.bid1
                 /\ accumData.paths14[x].bid2 = c.bid2
                 /\ accumData.paths14[x].bid3 = c.bid3})
recordingCallsOfTriple(c) ==
  Cardinality({x \in 1..Len(calls14) :
                 /\ calls14[x].bid1 = c.bid1 /\ calls14[x].bid2 = c.bid2
                 /\ calls14[x].bid3 = c.bid3 /\ calls14[x].recorded})

\* C23: every consecutive bond triple of a ring of 3, 4 or 5 bonds goes to
\* _record14Path and nowhere else; each such call appends one paths14
\* record, tagged CIS with the triple and its reverse in cisPaths when both
\* central atoms are sp2 and OTHER otherwise, and changes no bound.
SmallRingTriplesOnlyRecorded ==
  Done14 =>
    /\ \A t \in ringPaths :
         t.rSize \in 3..5 => routinesFor(t) = {"record14Path"}
    /\ \A k \in 1..Len(calls14) :
         calls14[k].routine = "record14Path" =>
           /\ calls14[k].rSize \in 3..5
           /\ ~calls14[k].wrote
           /\ calls14[k].recorded
           /\ recordsOfTriple(calls14[k]) = recordingCallsOfTriple(calls14[k])
           /\ IF /\ curMol.atoms[pathOf(calls14[k]).atm2].hyb = "SP2"
                 /\ curMol.atoms[pathOf(calls14[k]).atm3].hyb = "SP2"
              THEN /\ tagsOf(calls14[k]) = {"CIS"}
                   /\ keysOf(calls14[k]) \subseteq accumData.cisPaths
              ELSE /\ tagsOf(calls14[k]) = {"OTHER"}
                   /\ ~calls14[k].keyed

\* set14Bounds has recorded, in a ring of five bonds, a path between two sp2
\* atoms as CIS and a path with an sp3 central atom as OTHER
SmallRingCisAndOtherRecorded ==
  /\ Done14
  /\ \E c \in callsOf("record14Path") :
       c.rSize = 5 /\ tagsOf(c) = {"CIS"} /\ c.keyed /\ ~c.wrote
  /\ \E c \in callsOf("record14Path") :
       c.rSize = 5 /\ tagsOf(c) = {"OTHER"} /\ ~c.keyed /\ ~c.wrote

\* the calls of the second loop of set14Bounds, as positions in calls14
secondLoopCalls == {k \in 1..Len(calls14) : calls14[k].rSize = 0}

\* the triple (b1, b2, b3) follows a ring, in one orientation or the other
doneByRingLoop(b1, b2, b3) ==
  \E t \in ringPaths :
    /\ t.bid2 = b2
    /\ <<t.bid1, t.bid3>> \in {<<b1, b3>>, <<b3, b1>>}

\* the triples the second loop meets: b1 at the begin atom of b2, b3 at its
\* end atom, both other than b2
secondLoopTriples ==
  {t \in (0..(getNumBonds(curMol) - 1)) \X (0..(getNumBonds(curMol) - 1)) \X
          (0..(getNumBonds(curMol) - 1)) :
     /\ t[1] # t[2] /\ t[3] # t[2]
     /\ SeqHas(atomBonds(curMol, curMol.bonds[t[2]].beg), t[1])
     /\ SeqHas(atomBonds(curMol, curMol.bonds[t[2]].end), t[3])}

\* the routine of the second loop for a triple, by the order of its tests
routineByPriority(b1, b2, b3) ==
  IF ringsWithPair(b1, b2) # {} \/ ringsWithPair(b2, b3) # {}
  THEN IF opts.useMacrocycle14config /\ inMacrocycle(b2)
       THEN "MacrocycleTwoInSameRing14"
       ELSE "TwoInSameRing14"
  ELSE IF (numBondRings(curMol, b1) > 0 /\ numBondRings(curMol, b2) > 0) \/
          (numBondRings(curMol, b2) > 0 /\ numBondRings(curMol, b3) > 0)
  THEN "TwoInDiffRing14"
  ELSE IF numBondRings(curMol, b2) > 0
  THEN "ShareRingBond14"
  ELSE "Chain14"

\* C25: in the second loop of set14Bounds a triple that follows a ring, in
\* either orientation, is not dispatched again; every other triple with b1
\* at the begin atom of b2 and b3 at its end atom is dispatched exactly
\* once, to TwoInSameRing14 (or its macrocycle variant), TwoInDiffRing14,
\* ShareRingBond14 or Chain14, the first of these whose test holds.
SecondLoopDispatchesOnce ==
  Done14 =>
    /\ \A k \in secondLoopCalls :
         /\ ~doneByRingLoop(calls14[k].bid1, calls14[k].bid2, calls14[k].bid3)
         /\ <<calls14[k].bid1, calls14[k].bid2, calls14[k].bid3>> \in
              secondLoopTriples
    /\ \A t \in secondLoopTriples :
         ~doneByRingLoop(t[1], t[2], t[3]) =>
           /\ Cardinality({k \in secondLoopCalls :
                             /\ calls14[k].bid1 = t[1]
                             /\ calls14[k].bid2 = t[2]
                             /\ calls14[k].bid3 = t[3]}) = 1
           /\ \A k \in secondLoopCalls :
                (/\ calls14[k].bid1 = t[1]
                 /\ calls14[k].bid2 = t[2]
                 /\ calls14[k].bid3 = t[3]) =>
                  calls14[k].routine = routineByPriority(t[1], t[2], t[3])

\* set14Bounds has returned on a molecule whose second loop met a triple of
\* a ring walked the other way round and dispatched other triples to two
\* different routines
SecondLoopSkipsAndDispatches ==
  /\ Done14
  /\ \E t \in secondLoopTriples :
       /\ doneByRingLoop(t[1], t[2], t[3])
       /\ ~\E r \in ringPaths :
            r.bid1 = t[1] /\ r.bid2 = t[2] /\ r.bid3 = t[3]
  /\ \E k, l \in secondLoopCalls : calls14[k].routine # calls14[l].routine

---------------------------------------------------------------------------
(* Properties of set15Bounds (under Spec)                                  *)

allCalls15 == {calls15[k] : k \in 1..Len(calls15)}

\* C20 as stated: a candidate pair (a1, a5) is not written when its
\* topological distance is below 3.9, when a1 = a5, when L(a1, a5) is
\* already set, or when its set15Atoms flag is already set.
Set15PreflightAsStated ==
  \A c \in allCalls15 :
    (\/ c.dist < 4
     \/ c.aid1 = c.aid5
     \/ c.lower > DIST12_DELTA
     \/ c.flagged) => ~c.wrote

\* the candidates the preflight of _set15BoundsHelper turns away
rejected15(c) ==
  \/ c.dist < 4
  \/ c.aid1 = c.aid5
  \/ c.lower >= DIST12_DELTA /\ ~c.flagged

\* C20: a candidate pair is left alone (no bound written, no flag set) when
\* its topological distance is below 3.9, when a1 = a5, or when L(a1, a5) is
\* at least DIST12_DELTA and its set15Atoms flag is not set; every other
\* candidate, a flagged pair included, is handed to _checkAndSetBounds.
Set15PreflightAsCoded ==
  \A c \in allCalls15 :
    /\ rejected15(c) => ~c.called /\ ~c.wrote /\ ~c.marked
    /\ ~rejected15(c) => c.called

\* set15Bounds has written a pair for the first time, setting its flag, and
\* has written again a pair whose flag and lower bound were already set
FlaggedPairWrittenAgain ==
  /\ \E c \in allCalls15 :
       ~c.flagged /\ c.lower < DIST12_DELTA /\ c.wrote /\ c.marked
  /\ \E c \in allCalls15 :
       c.flagged /\ c.lower > DIST12_DELTA /\ c.wrote /\ c.ok
  /\ pc # "failed"

\* the calls of _checkAndSetBounds for a 1-4 path tagged OTHER
otherCalls15 == {c \in allCalls15 : c.called /\ c.type = "OTHER"}

\* [a - DIST15_TOL, b + DIST15_TOL]
padded15(c, a, b) ==
  IF a = NaN \/ b = NaN THEN c.dl = NaN
  ELSE c.dl = a - DIST15_TOL /\ c.du = b + DIST15_TOL

\* C26: for a 1-4 path tagged OTHER the call made for (a1, a5) carries
\* lb = 0.7 * (rvdw(a1) + rvdw(a5)) and ub = MAX_UPPER when the sub-path
\* (b2, b3, b4) is in neither cisPaths nor transPaths, and an untouched
\* pair then gets that lower bound and keeps U = MAX_UPPER; it carries
\* [CisCis - DIST15_TOL, CisTrans + DIST15_TOL] when the sub-path is in
\* cisPaths, and [TransCis - DIST15_TOL, TransTrans + DIST15_TOL] when it
\* is in transPaths only, both of the reversed path.
OtherPathBracket15 ==
  \A c \in otherCalls15 :
    /\ ~c.inCis /\ ~c.inTrans =>
         /\ c.dl = (7 * (getRvdw(curMol.atoms[c.aid1].Z) +
                         getRvdw(curMol.atoms[c.aid5].Z))) \div 10
         /\ c.du = MAX_UPPER
         /\ c.lower < DIST12_DELTA /\ c.upper = MAX_UPPER /\ c.ok =>
              c.lowerAfter = c.dl /\ c.upperAfter = MAX_UPPER
    /\ c.inCis =>
         padded15(c, _compute15DistsCisCis(c.d4, c.d3, c.d2, c.d1, c.ang34,
                                           c.ang23, c.ang12),
                  _compute15DistsCisTrans(c.d4, c.d3, c.d2, c.d1, c.ang34,
                                          c.ang23, c.ang12))
    /\ ~c.inCis /\ c.inTrans =>
         padded15(c, _compute15DistsTransCis(c.d4, c.d3, c.d2, c.d1, c.ang34,
                                             c.ang23, c.ang12),
                  _compute15DistsTransTrans(c.d4, c.d3, c.d2, c.d1, c.ang34,
                                            c.ang23, c.ang12))

\* set15Bounds has made, for paths tagged OTHER, a call on an untouched pair
\* with neither key present and a call with the sub-path in cisPaths
OtherPathDefaultAndCis15 ==
  /\ \E c \in otherCalls15 :
       /\ ~c.inCis /\ ~c.inTrans /\ c.ok
       /\ c.lower < DIST12_DELTA /\ c.upper = MAX_UPPER
  /\ \E c \in otherCalls15 : c.inCis /\ c.ok /\ c.dl # NaN
  /\ pc # "failed"

\* set15Bounds has made a call for a path tagged OTHER with the sub-path in
\* transPaths
OtherPathTrans15 ==
  \E c \in otherCalls15 : ~c.inCis /\ c.inTrans /\ c.ok /\ c.dl # NaN

---------------------------------------------------------------------------
(* Properties of _getAtomStereo (under SpecStereo)                         *)

flippedStereo(s) ==
  CASE s = "STEREOZ" -> "STEREOE" [] s = "STEREOE" -> "STEREOZ"
    [] s = "STEREOCIS" -> "STEREOTRANS" [] s = "STEREOTRANS" -> "STEREOCIS"
    [] OTHER -> s

\* the bond of the call has a stereo the routine may flip
flippable(c) ==
  /\ c.bnd.stereo \in {"STEREOZ", "STEREOE", "STEREOCIS", "STEREOTRANS"}
  /\ Len(c.bnd.stereoAtoms) >= 2

\* C22 as stated: the stereo comes back flipped whenever the stored pair of
\* stereo atoms is not the pair of end atoms (a1, a4), unchanged when it is;
\* stereo NONE / ANY comes back unchanged.
StereoFlippedUnlessPairEqual ==
  pc = "stereoReturned" =>
    call.stype =
      IF flippable(call) /\ call.bnd.stereoAtoms # <<call.aid1, call.aid4>>
      THEN flippedStereo(call.bnd.stereo)
      ELSE call.bnd.stereo

\* C22: the stereo comes back flipped when exactly one of the two stored
\* stereo atoms differs from its end atom (stereoAtoms[0] from a1,
\* stereoAtoms[1] from a4), and unchanged when both are equal or both
\* differ; stereo NONE / ANY, or a bond with fewer than two stereo atoms,
\* comes back unchanged.
StereoFlippedWhenOneAtomDiffers ==
  pc = "stereoReturned" =>
    call.stype =
      IF flippable(call) /\
         ((call.bnd.stereoAtoms[1] # call.aid1) #
          (call.bnd.stereoAtoms[2] # call.aid4))
      THEN flippedStereo(call.bnd.stereo)
      ELSE call.bnd.stereo

\* a Z bond came back E for a path that ends in the other neighbour of C2
StereoFlippedForOtherNeighbour ==
  /\ pc = "stereoReturned"
  /\ call.bnd.stereo = "STEREOZ"
  /\ call.bnd.stereoAtoms = <<0, 3>>
  /\ call.aid1 = 0 /\ call.aid4 = 5
  /\ call.stype = "STEREOE"

---------------------------------------------------------------------------
(* Properties of the packed keys (under SpecKeys)                          *)

\* the key of a triple without any wrap
exactKey(b1, b2, b3, nb) == b1 * nb * nb + b2 * nb + b3

\* C27: for a molecule that passes the size check, the key packed for
\* cisPaths / transPaths and for donePaths is b1 * nb^2 + b2 * nb + b3 with
\* no product wrapped, and no other triple of bond indices below nb has the
\* same key.
PackedKeysNeverWrap ==
  pc = "keysPacked" =>
    /\ call.pathId = exactKey(call.bid1, call.bid2, call.bid3, call.nb)
    /\ call.id1 = exactKey(call.bid1, call.bid2, call.bid3, call.nb)
    /\ \A t \in KeyTriples(call.nb) :
         t # <<call.bid1, call.bid2, call.bid3>> =>
           /\ PackKey(t[1], t[2], t[3], call.nb) # call.pathId
           /\ PackKey64(t[1], t[2], t[3], call.nb) # call.id1

\* the key of donePaths, formed with a 64-bit nb, is exact and shared with
\* no other triple
DonePathsKeyExact ==
  pc = "keysPacked" =>
    /\ call.id1 = exactKey(call.bid1, call.bid2, call.bid3, call.nb)
    /\ \A t \in KeyTriples(call.nb) :
         t # <<call.bid1, call.bid2, call.bid3>> =>
           PackKey64(t[1], t[2], t[3], call.nb) # call.id1

\* a key of cisPaths / transPaths whose middle product has wrapped and which
\* is also the key of another triple
WrappedKeyShared ==
  /\ pc = "keysPacked"
  /\ call.pathId # exactKey(call.bid1, call.bid2, call.bid3, call.nb)
  /\ \E t \in KeyTriples(call.nb) :
       /\ t # <<call.bid1, call.bid2, call.bid3>>
       /\ PackKey(t[1], t[2], t[3], call.nb) = call.pathId

---------------------------------------------------------------------------
(* Properties of getEnvironments (under SpecMorgan)                        *)

\* the environments of the layers 1..radius, as positions in the result
layerEnvs == {k \in 1..Len(call.result) : call.result[k].layer >= 1}

\* C30: without df_includeRedundantEnvironments no two environments of the
\* layers 1..radius have the same set of bonds; an environment is emitted
\* only for a neighbourhood not emitted before; an atom whose neighbourhood
\* is one already emitted, or whose degree is 0, is marked dead and has no
\* environment in any later layer.
NoRedundantEnvironments ==
  (pc \in {"gather", "emit", "returned"} /\
   ~call.includeRedundantEnvironments) =>
    /\ \A i, j \in layerEnvs :
         i < j => call.result[i].nbh # call.result[j].nbh
    /\ \A k \in 1..Len(call.steps) :
         LET e == call.steps[k]
         IN /\ e.emitted => ~e.known
            /\ e.known =>
                 /\ ~e.emitted /\ e.dead /\ e.atom \in call.deadAtoms
                 /\ \A l \in (k + 1)..Len(call.steps) :
                      call.steps[l].atom # e.atom
                 /\ \A i \in layerEnvs :
                      call.result[i].atom = e.atom =>
                        call.result[i].layer < e.layer
    /\ \A a \in DOMAIN curMol.atoms :
         getDegree(curMol, a) = 0 =>
           /\ \A i \in layerEnvs : call.result[i].atom # a
           /\ \A k \in 1..Len(call.steps) : call.steps[k].atom # a
           /\ (pc = "emit" \/ call.layer >= 1) => a \in call.deadAtoms

\* getEnvironments has returned after two layers or more, without
\* df_includeRedundantEnvironments, on a molecule with an atom of degree 0:
\* an atom was marked dead for a neighbourhood already emitted, in a layer
\* before the last, and another atom was emitted in the last layer
DuplicateNeighbourhoodDropped ==
  /\ pc = "returned" /\ ~call.includeRedundantEnvironments
  /\ call.radius >= 2
  /\ \E a \in DOMAIN curMol.atoms : getDegree(curMol, a) = 0
  /\ \E k \in 1..Len(call.steps) :
       call.steps[k].known /\ call.steps[k].layer < call.radius
  /\ \E i \in layerEnvs : call.result[i].layer = call.radius

---------------------------------------------------------------------------
(* Properties of concurrent invocations (under SpecConcurrent)             *)

\* C14: two invocations on distinct molecules and matrices, their passes
\* (and the bond writes of set12Bounds) interleaved in any order, each end
\* with the matrix the invocation produces alone, and a step of one
\* invocation leaves the matrix and the accumulator of the other unchanged.
ConcurrentInvocationsIndependent ==
  /\ [](\A k \in Invocations :
          /\ ~At(k, "failed")
          /\ At(k, "done") =>
                mmat[k] = setTopolBounds(Mol(molId[k]), entryMat[k], opts[k]))
  /\ [][\A k \in Invocations :
          pc'[k] = pc[k] =>
            (mmat'[k] = mmat[k] /\ accumData'[k] = accumData[k])]_vars

\* both invocations have returned, on different molecules, each having made
\* steps while the other was between its first and last pass
BothReturnedInterleaved ==
  /\ \A k \in Invocations : At(k, "done") /\ hist[k]
  /\ molId[1] # molId[2]
  /\ mmat[1] # mmat[2]

=============================================================================
